---- MODULE Spec2Model ----
(***************************************************************************)
(* Account pool manager and chat gateway (src/app.py, src/kiro_chat.py,    *)
(* src/api_converters.py).                                                 *)
(*                                                                         *)
(* Conventions of the model                                                *)
(*  - A Python value that is None, missing or otherwise falsy is one       *)
(*    value of the field's domain: NoStatus for a missing 'status' key,    *)
(*    NoId (0) for a null account id, "" for an empty token, 0 for an      *)
(*    expiresAt that is absent or 0, NoReason for a null statusReason.     *)
(*  - An optional object (Account | None, a document that may not exist    *)
(*    in the store) is a sequence of length 0 or 1.                        *)
(*  - Account ids are unique in a pool; an account keeps its id for life.  *)
(*  - Usage percentages are exact rationals <<numerator, denominator>>;    *)
(*    the source computes them in binary floating point, which agrees with *)
(*    the exact comparison for all the values the model draws.             *)
(***************************************************************************)
EXTENDS Integers, Sequences, FiniteSets, TLC

VARIABLES
    accounts,          \* the 'accounts' list of the persisted accounts document
    settingsDoc,       \* the persisted settings document: <<>> or <<settings>>
    DEFAULT_SETTINGS,  \* the module-level DEFAULT_SETTINGS dict (nested dicts are shared)
    now,               \* int(time.time() * 1000)
    lastOp,            \* name of the operation that ran last
    authenticated,     \* whether the last gateway request carried a valid API key
    selected,          \* return value of the last get_active_account(): <<>> or <<account>>
    response,          \* HTTP answer of the last request
    upstreamOpened,    \* whether the last gateway request opened an upstream call
    account,           \* the account object handed to check_account_status: <<>> or <<account>>
    changed,           \* return value of the last check_account_status
    runs,              \* consecutive runs of the operation under study (status
                       \* evaluation, switch task) since its inputs last changed
    switches,          \* number of runs of the switch task that changed the pointer
    settingsWrites,    \* number of save_settings calls made by the switch task
    refreshResult,     \* return value of the last refresh_token, with the requests it sent
    tokenReply,        \* the answers of the token endpoint and of the usage
                       \* endpoint that the last refresh_token consumed
    pass,              \* the runs of the refresh pass (auto_refresh_tokens_task),
                       \* one per origin: local variables and position
    jobs,              \* the scheduler's job store: job id -> <<>> or <<interval>>
    scheduler_jobs,    \* the keys of the module-level scheduler_jobs dict
    threads,           \* request threads inside update_settings / setup_scheduler
    frames,            \* the frames the upstream sent on the stream being decoded
    wire,              \* bytes of the stream not yet delivered by iter_content
    buffer,            \* the bytearray 'buffer' of stream_response
    parsed,            \* the messages parse_stream_message returned so far
    emitted,           \* the events stream_response yielded so far
    messages,          \* the 'messages' list of the chat request being served
    kiro_request,      \* return value of convert_to_codewhisperer_request: <<>> or <<request>>
    upstream,          \* the events of the upstream call and the generator's position in them
    sse,               \* the response generator of a streaming request: its
                       \* dialect, its position and what it yielded so far
    completion,        \* the handler of a non-streaming chat request: its
                       \* position, full_content and output_tokens
    inflight           \* the management request received last: <<>> or <<request>>

vars == <<accounts, settingsDoc, DEFAULT_SETTINGS, now, lastOp, authenticated,
          selected, response, upstreamOpened, account, changed, runs, switches,
          settingsWrites, refreshResult, tokenReply, pass, jobs,
          scheduler_jobs, threads, frames, wire, buffer, parsed, emitted,
          messages, kiro_request, upstream, sse, completion, inflight>>

-----------------------------------------------------------------------------
(* Bounds *)

MaxAccounts == 2
MaxUsage == 2
MaxTime == 2
MaxRuns == 3

-----------------------------------------------------------------------------
(* Data model *)

Statuses == {"active", "expired", "exhausted", "invalid"}
NoStatus == "missing"
NoReason == "null"
NoId == 0
GhostId == MaxAccounts + 1
Thresholds == {50, 100}
Currents == 0..MaxUsage
Limits == {0, MaxUsage}
\* <<current, limit>> pairs: every percentage k/MaxUsage, and one pair without a limit
UsagePairs == {<<c, MaxUsage>> : c \in Currents} \cup {<<MaxUsage, 0>>}
FreeTrials == 0..1
Times == 0..MaxTime

NoResponse == [code |-> 0, type |-> "none"]

\* Nothing returned yet by refresh_token, no reply consumed, no pass started
NoRefresh ==
    [ok |-> FALSE, message |-> "none", endpoint |-> "none", requests |-> 0,
     usageRequests |-> 0]
NoReply == [token |-> [kind |-> "none"], usage |-> <<>>]
NoPass ==
    [pc |-> "idle", data |-> <<>>, settings |-> <<>>, i |-> 1, refreshed |-> 0,
     failed |-> 0, skipped |-> 0, log |-> <<>>, saves |-> 0]

\* Who started a run of a maintenance task: the scheduler's timer, or a
\* request thread serving the manual trigger
Origins == {"timer", "manual"}

Idle_refresh ==
    /\ refreshResult = NoRefresh
    /\ tokenReply = NoReply
    /\ pass = [o \in Origins |-> NoPass]

Unchanged_refresh == UNCHANGED <<refreshResult, tokenReply, pass>>

\* The three periodic jobs, in the order setup_scheduler installs them
JobIds == <<"auto_refresh", "auto_switch", "status_check">>

ThreadIds == {1, 2}

NoThread == [pc |-> "idle", job |-> 0, enabled |-> FALSE, interval |-> 0]

Idle_sched ==
    /\ jobs = [id \in {JobIds[k] : k \in 1..Len(JobIds)} |-> <<>>]
    /\ scheduler_jobs = {}
    /\ threads = [t \in ThreadIds |-> NoThread]

Unchanged_sched == UNCHANGED <<jobs, scheduler_jobs, threads>>

Idle_decode ==
    /\ frames = <<>>
    /\ wire = <<>>
    /\ buffer = <<>>
    /\ parsed = <<>>
    /\ emitted = <<>>

Unchanged_decode == UNCHANGED <<frames, wire, buffer, parsed, emitted>>

NoUpstream == [events |-> <<>>, next |-> 1]

NoStream == [dialect |-> "none", pc |-> "idle", out |-> <<>>]

NoCompletion == [pc |-> "idle", full_content |-> <<>>, output_tokens |-> 0]

Idle_chat ==
    /\ messages = <<>>
    /\ kiro_request = <<>>
    /\ upstream = NoUpstream
    /\ sse = NoStream
    /\ completion = NoCompletion

Unchanged_chat ==
    UNCHANGED <<messages, kiro_request, upstream, sse, completion>>

Idle_requests == inflight = <<>>

Unchanged_requests == UNCHANGED inflight

Idle_rest == Idle_sched /\ Idle_decode /\ Idle_chat /\ Idle_requests

Unchanged_rest ==
    Unchanged_sched /\ Unchanged_decode /\ Unchanged_chat /\ Unchanged_requests

Account(id, status, reason, rt, at, exp, cur, lim, ftc, ftl) ==
    [id |-> id, status |-> status, statusReason |-> reason,
     refreshToken |-> rt, accessToken |-> at, expiresAt |-> exp,
     current |-> cur, limit |-> lim,
     freeTrialCurrent |-> ftc, freeTrialLimit |-> ftl]

AutoSwitch(enabled, threshold, currentId) ==
    [autoSwitch |-> [enabled |-> enabled, switchThreshold |-> threshold,
                     currentAccountId |-> currentId]]

DefaultSettings == AutoSwitch(FALSE, 90, NoId)

\* Pools of n accounts drawn from the set S, with ids 1..n in pool order
PoolsOf(S, n) == {[i \in 1..n |-> [f[i] EXCEPT !.id = i]] : f \in [1..n -> S]}

PoolsUpTo(S, n) == UNION {PoolsOf(S, k) : k \in 0..n}

-----------------------------------------------------------------------------
(* Settings store *)

\* The stored document laid over the defaults, one level deep (dict.update)
load_settings ==
    IF settingsDoc # <<>>
    THEN [key \in DOMAIN DEFAULT_SETTINGS |->
            IF key \in DOMAIN settingsDoc[1]
            THEN [k \in DOMAIN DEFAULT_SETTINGS[key] \cup
                        DOMAIN settingsDoc[1][key] |->
                    IF k \in DOMAIN settingsDoc[1][key]
                    THEN settingsDoc[1][key][k]
                    ELSE DEFAULT_SETTINGS[key][k]]
            ELSE DEFAULT_SETTINGS[key]]
    ELSE DEFAULT_SETTINGS

-----------------------------------------------------------------------------
(* Account selection *)

get_account_usage_percent(a) ==
    IF a.limit > 0 THEN <<a.current * 100, a.limit>> ELSE <<0, 1>>

\* p < q for two percentages
PctLess(p, q) == p[1] * q[2] < q[1] * p[2]

\* Mutant of PctBelow: a usage equal to the threshold counts as below it
PctBelow_orEqual(a, threshold) ==
    ~PctLess(<<threshold, 1>>, get_account_usage_percent(a))

PctBelow(a, threshold) == PctLess(get_account_usage_percent(a), <<threshold, 1>>)

\* Mutant of SortInsert: a goes in front of the elements with an equal key
SortInsert_unstable(a, s) ==
    LET pos == Cardinality({i \in 1..Len(s) :
                    PctLess(get_account_usage_percent(s[i]),
                            get_account_usage_percent(a))})
    IN  SubSeq(s, 1, pos) \o <<a>> \o SubSeq(s, pos + 1, Len(s))

\* One step of list.sort(key=...): a goes behind every element whose key is
\* not greater than its own, which keeps equal keys in their original order.
SortInsert(a, s) ==
    LET pos == Cardinality({i \in 1..Len(s) :
                    ~PctLess(get_account_usage_percent(a),
                             get_account_usage_percent(s[i]))})
    IN  SubSeq(s, 1, pos) \o <<a>> \o SubSeq(s, pos + 1, Len(s))

RECURSIVE SortByUsage(_)
SortByUsage(s) ==
    IF s = <<>> THEN <<>>
    ELSE SortInsert(s[Len(s)], SortByUsage(SubSeq(s, 1, Len(s) - 1)))

\* Mutant of IsActive: only the statuses known to be bad are filtered out
IsActive_notBad(a) == a.status \notin {"exhausted", "invalid"}

IsActive(a) == a.status = "active"

\* Mutant of find_best_account: the sort is descending
find_best_account_highest(pool) ==
    LET active == SelectSeq(pool, IsActive)
    IN  IF active = <<>> THEN <<>>
        ELSE <<SortByUsage(active)[Len(active)]>>

find_best_account(pool) ==
    LET active == SelectSeq(pool, IsActive)
    IN  IF active = <<>> THEN <<>> ELSE <<SortByUsage(active)[1]>>

\* Mutant of IsCurrentAndActive: the named account is taken whatever its status
IsCurrentAndActive_anyStatus(a, current_id) == a.id = current_id

IsCurrentAndActive(a, current_id) == a.id = current_id /\ a.status = "active"

get_active_account(pool, settings) ==
    LET current_id == settings.autoSwitch.currentAccountId
        named == SelectSeq(pool, LAMBDA a : IsCurrentAndActive(a, current_id))
    IN  IF current_id # NoId /\ named # <<>>
        THEN <<named[1]>>
        ELSE find_best_account(pool)

-----------------------------------------------------------------------------
(* Gateway routes and the set-current management route *)

Unchanged_status == UNCHANGED <<account, changed>>
Unchanged_switch == UNCHANGED <<runs, switches, settingsWrites>>

\* POST /v1/chat/completions; auth: verify_api_key_auth() found the key;
\* upstream_ok: the upstream call, once opened, ends without an exception
chat_completions(auth, upstream_ok) ==
    /\ lastOp' = "chat_completions"
    /\ Unchanged_rest
    /\ authenticated' = auth
    /\ IF ~auth
       THEN /\ response' = [code |-> 401, type |-> "authentication_error"]
            /\ upstreamOpened' = FALSE
            /\ UNCHANGED <<selected, DEFAULT_SETTINGS>>
       ELSE LET settings == load_settings
                acct == get_active_account(accounts, settings)
            IN  /\ DEFAULT_SETTINGS' = settings
                /\ selected' = acct
                /\ IF acct = <<>>
                   THEN /\ response' = [code |-> 503, type |-> "server_error"]
                        /\ upstreamOpened' = FALSE
                   ELSE IF acct[1].accessToken = ""
                   THEN /\ response' = [code |-> 503, type |-> "server_error"]
                        /\ upstreamOpened' = FALSE
                   ELSE /\ upstreamOpened' = TRUE
                        /\ response' = IF upstream_ok
                                       THEN [code |-> 200, type |-> "ok"]
                                       ELSE [code |-> 500, type |-> "server_error"]
    /\ UNCHANGED <<accounts, settingsDoc, now>>
    /\ Unchanged_status /\ Unchanged_switch /\ Unchanged_refresh

\* POST /v1/messages
anthropic_messages(auth, upstream_ok) ==
    /\ lastOp' = "anthropic_messages"
    /\ Unchanged_rest
    /\ authenticated' = auth
    /\ IF ~auth
       THEN /\ response' = [code |-> 401, type |-> "authentication_error"]
            /\ upstreamOpened' = FALSE
            /\ UNCHANGED <<selected, DEFAULT_SETTINGS>>
       ELSE LET settings == load_settings
                acct == get_active_account(accounts, settings)
            IN  /\ DEFAULT_SETTINGS' = settings
                /\ selected' = acct
                /\ IF acct = <<>>
                   THEN /\ response' = [code |-> 503, type |-> "api_error"]
                        /\ upstreamOpened' = FALSE
                   ELSE /\ upstreamOpened' = TRUE
                        /\ response' = IF upstream_ok
                                       THEN [code |-> 200, type |-> "ok"]
                                       ELSE [code |-> 500, type |-> "api_error"]
    /\ UNCHANGED <<accounts, settingsDoc, now>>
    /\ Unchanged_status /\ Unchanged_switch /\ Unchanged_refresh

\* POST /api/accounts/<account_id>/set-current
set_current_account(account_id) ==
    /\ lastOp' = "set_current_account"
    /\ Unchanged_rest
    /\ IF \A i \in 1..Len(accounts) : accounts[i].id # account_id
       THEN /\ response' = [code |-> 404, type |-> "Account not found"]
            /\ UNCHANGED <<settingsDoc, DEFAULT_SETTINGS>>
       ELSE LET settings == [load_settings EXCEPT
                                !.autoSwitch.currentAccountId = account_id]
            IN  /\ settingsDoc' = <<settings>>
                /\ DEFAULT_SETTINGS' = settings
                /\ response' = [code |-> 200, type |-> "ok"]
    /\ UNCHANGED <<accounts, now, authenticated, selected, upstreamOpened>>
    /\ Unchanged_status /\ Unchanged_switch /\ Unchanged_refresh

-----------------------------------------------------------------------------
(* Specification of account selection: a stored pool, a stored pointer,      *)
(* gateway requests and set-current calls.                                   *)

SelectAccounts ==
    {Account(NoId, st, NoReason, "r1", at, 0, u[1], u[2], 0, 0) :
        st \in {"active", "expired"}, at \in {"", "tok"}, u \in UsagePairs}

InitSelect ==
    /\ accounts \in PoolsUpTo(SelectAccounts, MaxAccounts)
    /\ settingsDoc \in {<<>>} \cup
            {<<AutoSwitch(FALSE, 90, c)>> : c \in 0..GhostId}
    /\ DEFAULT_SETTINGS = DefaultSettings
    /\ now = 0
    /\ lastOp = "init"
    /\ authenticated = FALSE
    /\ selected = <<>>
    /\ response = NoResponse
    /\ upstreamOpened = FALSE
    /\ account = <<>>
    /\ changed = FALSE
    /\ runs = 0
    /\ switches = 0
    /\ settingsWrites = 0
    /\ Idle_refresh
    /\ Idle_rest

NextSelect ==
    \/ \E auth \in BOOLEAN, ok \in BOOLEAN : chat_completions(auth, ok)
    \/ \E auth \in BOOLEAN, ok \in BOOLEAN : anthropic_messages(auth, ok)

SpecSelect == InitSelect /\ [][NextSelect]_vars

\* The current-account pointer a load of the settings returns
CurrentAccountId == load_settings.autoSwitch.currentAccountId

ActiveIndexes == {i \in 1..Len(accounts) : accounts[i].status = "active"}

UsageOf(i) == get_account_usage_percent(accounts[i])

\* The last operation was a gateway request that got as far as account selection
SelectionRan ==
    lastOp \in {"chat_completions", "anthropic_messages"} /\ authenticated

\* C1: the account returned by get_active_account, if any, has stored status
\* 'active', whatever the pool and whatever currentAccountId names.
C1_SelectedIsActive ==
    selected # <<>> =>
        /\ selected[1].status = "active"
        /\ \E i \in 1..Len(accounts) : accounts[i] = selected[1]

\* C1 witness: the pointer names a pool account that is not active, and the
\* selection still returned an account.
C1_Witness ==
    /\ SelectionRan
    /\ selected # <<>>
    /\ \E i \in 1..Len(accounts) :
          accounts[i].id = CurrentAccountId /\ accounts[i].status # "active"

\* What the claim says selection returns: the named account if it is in the
\* pool and active, else the earliest active account of minimal usage.
C2_Expected ==
    IF \E i \in ActiveIndexes : accounts[i].id = CurrentAccountId
    THEN <<accounts[CHOOSE i \in ActiveIndexes : accounts[i].id = CurrentAccountId]>>
    ELSE IF ActiveIndexes = {} THEN <<>>
    ELSE <<accounts[CHOOSE i \in ActiveIndexes :
                /\ \A j \in ActiveIndexes : ~PctLess(UsageOf(j), UsageOf(i))
                /\ \A j \in ActiveIndexes : j < i => PctLess(UsageOf(i), UsageOf(j))]>>

\* C2: selection returns the account named by currentAccountId when it is in
\* the pool and active; otherwise the active account of lowest usage
\* percentage, the earliest in pool order among equals.
C2_SelectionRule == SelectionRan => selected = C2_Expected

\* C2 witness: no usable pointer, and two active accounts with different
\* current/limit values tie on the lowest percentage; the earlier was returned.
C2_Witness ==
    /\ SelectionRan
    /\ ~(\E i \in ActiveIndexes : accounts[i].id = CurrentAccountId)
    /\ \E i, j \in ActiveIndexes :
          /\ i < j
          /\ UsageOf(i) # UsageOf(j)
          /\ ~PctLess(UsageOf(i), UsageOf(j))
          /\ ~PctLess(UsageOf(j), UsageOf(i))
          /\ selected = <<accounts[i]>>

\* C3: with no 'active' account in the pool, selection returns None and an
\* authenticated POST /v1/chat/completions answers 503 with error.type
\* 'server_error', without opening an upstream call (a raised exception would
\* answer 500).
C3_NoActiveGives503 ==
    (lastOp = "chat_completions" /\ authenticated /\ ActiveIndexes = {}) =>
        /\ selected = <<>>
        /\ response = [code |-> 503, type |-> "server_error"]
        /\ ~upstreamOpened

\* C3 witness: a non-empty pool without an active account, whose pointer
\* names one of its accounts, answered 503.
C3_Witness ==
    /\ lastOp = "chat_completions" /\ authenticated
    /\ ActiveIndexes = {}
    /\ \E i \in 1..Len(accounts) :
          accounts[i].id = CurrentAccountId /\ accounts[i].accessToken # ""
    /\ response.code = 503

-----------------------------------------------------------------------------
(* Status evaluation *)

\* Mutant of derive_status: the usage check comes before the expiry check
derive_status_usageFirst(a, t) ==
    IF a.refreshToken = ""
    THEN [status |-> "invalid", reason |-> "No refresh token"]
    ELSE IF a.limit + a.freeTrialLimit > 0
            /\ a.current + a.freeTrialCurrent >= a.limit + a.freeTrialLimit
    THEN [status |-> "exhausted", reason |-> "Usage limit exceeded"]
    ELSE IF a.expiresAt # 0 /\ a.expiresAt < t
    THEN [status |-> "expired", reason |-> "Token expired"]
    ELSE [status |-> "active", reason |-> NoReason]

\* The status and reason check_account_status derives for account a at time t
derive_status(a, t) ==
    IF a.refreshToken = ""
    THEN [status |-> "invalid", reason |-> "No refresh token"]
    ELSE IF a.expiresAt # 0 /\ a.expiresAt < t
    THEN [status |-> "expired", reason |-> "Token expired"]
    ELSE LET total_limit == a.limit + a.freeTrialLimit
             total_current == a.current + a.freeTrialCurrent
         IN  IF total_limit > 0 /\ total_current >= total_limit
             THEN [status |-> "exhausted", reason |-> "Usage limit exceeded"]
             ELSE [status |-> "active", reason |-> NoReason]

\* Mutant of check_account_status: a recovery to 'active' is reported but not stored
check_account_status_noRecover(a, t) ==
    LET old_status == IF a.status = NoStatus THEN "active" ELSE a.status
        new == derive_status(a, t)
    IN  IF new.status # old_status
        THEN [account |-> IF new.status = "active" THEN a
                          ELSE [a EXCEPT !.status = new.status,
                                         !.statusReason = new.reason],
              changed |-> TRUE]
        ELSE [account |-> a, changed |-> FALSE]

\* check_account_status(account) at time t: the account as it leaves the call,
\* and the value returned
check_account_status(a, t) ==
    LET old_status == IF a.status = NoStatus THEN "active" ELSE a.status
        new == derive_status(a, t)
    IN  IF new.status # old_status
        THEN [account |-> [a EXCEPT !.status = new.status,
                                    !.statusReason = new.reason],
              changed |-> TRUE]
        ELSE [account |-> a, changed |-> FALSE]

Unchanged_gateway ==
    UNCHANGED <<authenticated, selected, response, upstreamOpened>>

\* One call check_account_status(account)
CheckAccountStatus ==
    /\ account # <<>>
    /\ runs < MaxRuns
    /\ LET r == check_account_status(account[1], now)
       IN  /\ account' = <<r.account>>
           /\ changed' = r.changed
    /\ runs' = runs + 1
    /\ lastOp' = "check_account_status"
    /\ Unchanged_rest
    /\ UNCHANGED <<accounts, settingsDoc, DEFAULT_SETTINGS, now, switches,
                   settingsWrites>>
    /\ Unchanged_gateway /\ Unchanged_refresh

\* The clock advances
Tick ==
    /\ now < MaxTime
    /\ now' = now + 1
    /\ runs' = 0
    /\ lastOp' = "tick"
    /\ Unchanged_rest
    /\ UNCHANGED <<accounts, settingsDoc, DEFAULT_SETTINGS, account, changed,
                   switches, settingsWrites>>
    /\ Unchanged_gateway /\ Unchanged_refresh

-----------------------------------------------------------------------------
(* Specification of status evaluation: one account with any stored status,   *)
(* credentials and usage, evaluated any number of times as the clock runs.   *)

StatusAccounts ==
    {Account(1, st, reason, rt, "tok", exp, cur, lim, ftc, ftl) :
        st \in Statuses \cup {NoStatus},
        reason \in {NoReason, "No refresh token", "Token expired", "Usage limit exceeded"},
        rt \in {"", "r1"}, exp \in Times,
        cur \in Currents, lim \in Limits, ftc \in FreeTrials, ftl \in FreeTrials}

InitStatus ==
    /\ account \in {<<a>> : a \in StatusAccounts}
    /\ now \in Times
    /\ changed = FALSE
    /\ runs = 0
    /\ lastOp = "init"
    /\ accounts = <<>>
    /\ settingsDoc = <<>>
    /\ DEFAULT_SETTINGS = DefaultSettings
    /\ authenticated = FALSE
    /\ selected = <<>>
    /\ response = NoResponse
    /\ upstreamOpened = FALSE
    /\ switches = 0
    /\ settingsWrites = 0
    /\ Idle_refresh
    /\ Idle_rest

NextStatus == CheckAccountStatus \/ Tick

SpecStatus == InitStatus /\ [][NextStatus]_vars

\* The token of account a is past its expiry at time t (an expiresAt that is
\* missing or 0 is no expiry at all)
TokenExpired(a, t) == a.expiresAt # 0 /\ a.expiresAt < t

\* C4: check_account_status is idempotent: a call that follows another call,
\* with credentials, usage and the clock unchanged in between, changes neither
\* status nor statusReason and returns changed = false.
C4_Idempotent ==
    [][(lastOp = "check_account_status" /\ CheckAccountStatus) =>
            (account' = account /\ changed' = FALSE)]_vars

\* C4 witness: a second call in a row has run on an account whose first call
\* had to change the status.
C4_Witness ==
    /\ lastOp = "check_account_status"
    /\ runs = 2
    /\ changed = FALSE
    /\ account[1].status = "exhausted"
    /\ account[1].statusReason = "Usage limit exceeded"

\* C5: an account whose expiresAt is set and in the past and whose
\* refreshToken is non-empty has status 'expired' after evaluation, whatever
\* its prior status and its usage.
C5_ExpiredNeverActive ==
    (lastOp = "check_account_status"
        /\ account[1].refreshToken # "" /\ TokenExpired(account[1], now)) =>
        account[1].status = "expired"

\* C5 witness: an evaluated account with an expired token whose usage is at
\* its limit.
C5_Witness ==
    /\ lastOp = "check_account_status"
    /\ changed
    /\ account[1].refreshToken # "" /\ TokenExpired(account[1], now)
    /\ account[1].limit > 0 /\ account[1].current >= account[1].limit
    /\ account[1].status = "expired"

\* The status the priority rule of the claim gives account a at time t
C6_Rule(a, t) ==
    IF a.refreshToken = "" THEN "invalid"
    ELSE IF TokenExpired(a, t) THEN "expired"
    ELSE IF a.limit + a.freeTrialLimit > 0
            /\ a.current + a.freeTrialCurrent >= a.limit + a.freeTrialLimit
    THEN "exhausted"
    ELSE "active"

\* C6: after check_account_status the stored status is the first matching rule
\* (no refreshToken -> invalid; expiresAt set and < now -> expired; combined
\* limit > 0 and combined usage >= combined limit -> exhausted; else active),
\* and the call returns true exactly when the stored status differed from that
\* value before the call.
C6_StoredStatusIsDerived ==
    [][CheckAccountStatus =>
            /\ account'[1].status = C6_Rule(account[1], now)
            /\ changed' = (account[1].status # C6_Rule(account[1], now))]_vars

\* C6 for the accounts that hold a 'status' key: there the rule and the
\* return value are as claimed.
C6_HoldsWithStoredStatus ==
    [][(CheckAccountStatus /\ account[1].status # NoStatus) =>
            /\ account'[1].status = C6_Rule(account[1], now)
            /\ changed' = (account[1].status # C6_Rule(account[1], now))]_vars

-----------------------------------------------------------------------------
(* Token refresh (refresh_token and the two token endpoints)                 *)
(*                                                                           *)
(* The answer of the token endpoint is an input of the call:                 *)
(*   kind "ok"         2xx with accessToken, expiresIn and, when the         *)
(*                     endpoint rotates it, a refreshToken ("" when absent)  *)
(*   kind "malformed"  2xx whose expiresIn is null                           *)
(*   kind "http_error" a non-2xx answer                                      *)
(*   kind "timeout"    no answer within the 30 seconds of the request        *)
(* The answer of the usage endpoint is <<>> (error, timeout, no credit       *)
(* entry) or <<usage>>.  The clock does not advance inside one call.         *)

MaxExpiresIn == 1
MaxRefreshes == 1
MaxPasses == 1

ExpiresIns == {0, MaxExpiresIn}

TokenReplies ==
    {[kind |-> "ok", accessToken |-> "t2", refreshToken |-> rt, expiresIn |-> e] :
        rt \in {"", "r2"}, e \in ExpiresIns}
    \cup {[kind |-> "malformed", accessToken |-> "t2", refreshToken |-> "r2",
           expiresIn |-> 0]}
    \cup {[kind |-> k, accessToken |-> "", refreshToken |-> "", expiresIn |-> 0] :
            k \in {"http_error", "timeout"}}

\* Usage answers: none, nothing used, everything used
UsageReplies ==
    {<<>>} \cup {<<[current |-> c, limit |-> MaxUsage, freeTrialCurrent |-> 0,
                    freeTrialLimit |-> 0]>> : c \in {0, MaxUsage}}

\* An account with the fields refresh_token reads besides those of Account
WithLogin(a, idp, authMethod, clientId, clientSecret) ==
    a @@ [idp |-> idp, authMethod |-> authMethod, clientId |-> clientId,
          clientSecret |-> clientSecret]

\* What refresh_social_token returns or raises for one answer of the endpoint
refresh_social_token(refresh_token_value, reply) ==
    [raised |-> IF reply.kind = "timeout" THEN "Timeout" ELSE "none",
     success |-> reply.kind \in {"ok", "malformed"},
     accessToken |-> reply.accessToken,
     refreshToken |-> IF reply.refreshToken # "" THEN reply.refreshToken
                      ELSE refresh_token_value,
     expiresIn |-> reply.expiresIn,
     expiresInIsNull |-> reply.kind = "malformed",
     error |-> IF reply.kind = "http_error" THEN "HTTP error" ELSE ""]

\* What refresh_oidc_token returns or raises for one answer of the endpoint
refresh_oidc_token(refresh_token_value, client_id, client_secret, reply) ==
    [raised |-> IF reply.kind = "timeout" THEN "Timeout" ELSE "none",
     success |-> reply.kind \in {"ok", "malformed"},
     accessToken |-> reply.accessToken,
     refreshToken |-> IF reply.refreshToken # "" THEN reply.refreshToken
                      ELSE refresh_token_value,
     expiresIn |-> reply.expiresIn,
     expiresInIsNull |-> reply.kind = "malformed",
     error |-> IF reply.kind = "http_error" THEN "HTTP error" ELSE ""]

\* update_account_usage: a usage answer replaces the usage object wholesale
update_account_usage(a, usage_reply) ==
    IF a.accessToken = "" \/ usage_reply = <<>>
    THEN a
    ELSE [a EXCEPT !.current = usage_reply[1].current,
                   !.limit = usage_reply[1].limit,
                   !.freeTrialCurrent = usage_reply[1].freeTrialCurrent,
                   !.freeTrialLimit = usage_reply[1].freeTrialLimit]

is_social_idpOnly(a) == a.idp \in {"Github", "Google"}

is_social(a) == a.authMethod = "social" \/ a.idp \in {"Github", "Google"}

\* The early returns and the failure returns of refresh_token
RefreshFailed_dropsToken(a, msg, endpoint, requests) ==
    [account |-> [a EXCEPT !.accessToken = ""], ok |-> FALSE, message |-> msg,
     endpoint |-> endpoint, requests |-> requests, usageRequests |-> 0]

RefreshFailed(a, msg, endpoint, requests) ==
    [account |-> a, ok |-> FALSE, message |-> msg, endpoint |-> endpoint,
     requests |-> requests, usageRequests |-> 0]

refresh_token(a, t, reply, usage_reply) ==
    IF a.refreshToken = ""
    THEN RefreshFailed(a, "No refresh token available", "none", 0)
    ELSE IF ~is_social(a) /\ (a.clientId = "" \/ a.clientSecret = "")
    THEN RefreshFailed(a, "Missing OIDC credentials (clientId/clientSecret)",
                       "none", 0)
    ELSE
    LET endpoint == IF is_social(a) THEN "social" ELSE "oidc"
        result == IF is_social(a)
                  THEN refresh_social_token(a.refreshToken, reply)
                  ELSE refresh_oidc_token(a.refreshToken, a.clientId,
                                          a.clientSecret, reply)
        written == [a EXCEPT !.accessToken = result.accessToken,
                             !.refreshToken = result.refreshToken]
        stamped == [written EXCEPT !.expiresAt = t + result.expiresIn * 1000]
        revived == IF stamped.status = "expired"
                   THEN [stamped EXCEPT !.status = "active",
                                        !.statusReason = NoReason]
                   ELSE stamped
        measured == update_account_usage(revived, usage_reply)
    IN  IF result.raised = "Timeout"
        THEN RefreshFailed(a, "Request timeout", endpoint, 1)
        ELSE IF ~result.success
        THEN RefreshFailed(a, result.error, endpoint, 1)
        ELSE IF result.expiresInIsNull
        THEN \* int + None * 1000 raises after the two tokens were written
             [account |-> written, ok |-> FALSE, message |-> "TypeError",
              endpoint |-> endpoint, requests |-> 1, usageRequests |-> 0]
        ELSE [account |-> check_account_status(measured, t).account,
              ok |-> TRUE, message |-> "Token refreshed successfully",
              endpoint |-> endpoint, requests |-> 1,
              usageRequests |-> IF revived.accessToken = "" THEN 0 ELSE 1]

\* One call refresh_token(account)
RefreshToken(reply, usage_reply) ==
    /\ account # <<>>
    /\ runs < MaxRefreshes
    /\ LET r == refresh_token(account[1], now, reply, usage_reply)
       IN  /\ account' = <<r.account>>
           /\ refreshResult' = [ok |-> r.ok, message |-> r.message,
                                endpoint |-> r.endpoint,
                                requests |-> r.requests,
                                usageRequests |-> r.usageRequests]
    /\ tokenReply' = [token |-> reply, usage |-> usage_reply]
    /\ runs' = runs + 1
    /\ lastOp' = "refresh_token"
    /\ Unchanged_rest
    /\ UNCHANGED <<accounts, settingsDoc, DEFAULT_SETTINGS, now, changed,
                   switches, settingsWrites, pass>>
    /\ Unchanged_gateway

-----------------------------------------------------------------------------
(* Specification of token refresh: one account with any login method,        *)
(* credentials, status and usage, refreshed up to MaxRefreshes times in a    *)
(* row at some time of the clock, against every answer of the endpoints.     *)

TokenAccounts ==
    {WithLogin(Account(1, st, NoReason, rt, "tok", 1, c, MaxUsage, 0, 0),
               idp, am, cid, cs) :
        st \in {"active", "expired", "exhausted", NoStatus},
        rt \in {"", "r1"}, c \in {1, MaxUsage},
        idp \in {"BuilderId", "Github", "Google"}, am \in {"social", "IdC"},
        cid \in {"", "cid"}, cs \in {"", "sec"}}

InitToken ==
    /\ account \in {<<a>> : a \in TokenAccounts}
    /\ now \in {0, MaxTime}
    /\ accounts = <<>>
    /\ settingsDoc = <<>>
    /\ DEFAULT_SETTINGS = DefaultSettings
    /\ lastOp = "init"
    /\ authenticated = FALSE
    /\ selected = <<>>
    /\ response = NoResponse
    /\ upstreamOpened = FALSE
    /\ changed = FALSE
    /\ runs = 0
    /\ switches = 0
    /\ settingsWrites = 0
    /\ Idle_refresh
    /\ Idle_rest

NextToken ==
    \E reply \in TokenReplies, usage_reply \in UsageReplies :
        RefreshToken(reply, usage_reply)

SpecToken == InitToken /\ [][NextToken]_vars

\* A step that is one call of refresh_token
TokenRan == runs' = runs + 1 /\ lastOp' = "refresh_token"

\* The account's total usage is below its combined limit
BelowCombinedLimit(a) ==
    a.current + a.freeTrialCurrent < a.limit + a.freeTrialLimit

\* The account's own fields select the social endpoint
SocialLogin(a) == a.authMethod = "social" \/ a.idp = "Github" \/ a.idp = "Google"

MissingClient(a) == a.clientId = "" \/ a.clientSecret = ""

\* C11: after a successful refresh whose answer carries expiresIn > 0 the
\* account holds the new accessToken, the rotated refreshToken if one was
\* returned and otherwise the old one, expiresAt = now + expiresIn * 1000, and
\* the status 'active' whenever its usage is below its combined limit; the
\* refresh succeeds whatever the usage endpoint answers.
C11_SuccessfulRefresh ==
    [][(TokenRan /\ refreshResult'.ok /\ tokenReply'.token.expiresIn > 0)
        => /\ account'[1].accessToken = tokenReply'.token.accessToken
           /\ account'[1].refreshToken =
                IF tokenReply'.token.refreshToken # ""
                THEN tokenReply'.token.refreshToken
                ELSE account[1].refreshToken
           /\ account'[1].expiresAt = now + tokenReply'.token.expiresIn * 1000
           /\ (BelowCombinedLimit(account'[1])
                => account'[1].status = "active")]_vars

\* C11 for accounts that carry a 'status' key: the same statement holds
C11_HoldsWithStoredStatus ==
    [][(TokenRan /\ refreshResult'.ok /\ tokenReply'.token.expiresIn > 0
            /\ account[1].status # NoStatus)
        => /\ account'[1].accessToken = tokenReply'.token.accessToken
           /\ account'[1].refreshToken =
                IF tokenReply'.token.refreshToken # ""
                THEN tokenReply'.token.refreshToken
                ELSE account[1].refreshToken
           /\ account'[1].expiresAt = now + tokenReply'.token.expiresIn * 1000
           /\ (BelowCombinedLimit(account'[1])
                => account'[1].status = "active")]_vars

\* C11, the usage fetch: a refresh whose token request was answered with a
\* well-formed 2xx succeeds also when the usage endpoint gave no answer
C11_UsageFailureKeepsSuccess ==
    [][(TokenRan /\ tokenReply'.token.kind = "ok" /\ refreshResult'.requests = 1)
        => refreshResult'.ok]_vars

\* C12 as stated: the social endpoint is requested exactly for social
\* accounts, every other account is refreshed at the OIDC endpoint, and
\* without clientId or clientSecret the call fails with the
\* missing-credentials reason and sends no request.
C12_ProtocolFromAccountAlone ==
    [][TokenRan
        => /\ (refreshResult'.endpoint = "social") = SocialLogin(account[1])
           /\ (~SocialLogin(account[1]) /\ ~MissingClient(account[1]))
                => refreshResult'.endpoint = "oidc"
           /\ (~SocialLogin(account[1]) /\ MissingClient(account[1]))
                => /\ ~refreshResult'.ok
                   /\ refreshResult'.message =
                        "Missing OIDC credentials (clientId/clientSecret)"
                   /\ refreshResult'.requests = 0]_vars

\* C12 amended: for an account that holds a refresh token, the social
\* endpoint is requested exactly for social accounts, every other account is
\* refreshed at the OIDC endpoint, and without clientId or clientSecret the
\* call fails with the missing-credentials reason and sends no request.
C12_ProtocolWithRefreshToken ==
    [][(TokenRan /\ account[1].refreshToken # "")
        => /\ (refreshResult'.endpoint = "social") = SocialLogin(account[1])
           /\ refreshResult'.endpoint = "social" => refreshResult'.requests = 1
           /\ (~SocialLogin(account[1]) /\ ~MissingClient(account[1]))
                => /\ refreshResult'.endpoint = "oidc"
                   /\ refreshResult'.requests = 1
           /\ (~SocialLogin(account[1]) /\ MissingClient(account[1]))
                => /\ ~refreshResult'.ok
                   /\ refreshResult'.message =
                        "Missing OIDC credentials (clientId/clientSecret)"
                   /\ refreshResult'.endpoint = "none"
                   /\ refreshResult'.requests = 0]_vars

\* C12 witness: a BuilderId account marked authMethod 'social' was refreshed
\* at the social endpoint although it has no client credentials
C12_Witness ==
    /\ lastOp = "refresh_token"
    /\ account # <<>>
    /\ account[1].idp = "BuilderId"
    /\ account[1].authMethod = "social"
    /\ account[1].clientId = ""
    /\ refreshResult.endpoint = "social"
    /\ refreshResult.requests = 1

\* The cause of a failed refresh, from the account and the endpoint's answer
FailureCause(a, reply) ==
    IF a.refreshToken = "" THEN "no_refresh_token"
    ELSE IF ~SocialLogin(a) /\ MissingClient(a) THEN "missing_credentials"
    ELSE reply.kind

ReasonOf(cause) ==
    CASE cause = "no_refresh_token" -> "No refresh token available"
      [] cause = "missing_credentials" ->
            "Missing OIDC credentials (clientId/clientSecret)"
      [] cause = "http_error" -> "HTTP error"
      [] cause = "timeout" -> "Request timeout"
      [] OTHER -> "other"

ListedCauses ==
    {"no_refresh_token", "missing_credentials", "http_error", "timeout"}

\* C13: a refresh that fails for want of a refresh token, for want of OIDC
\* credentials, on an upstream HTTP error or on a timeout returns false with
\* the reason of its cause (the four reasons differ), leaves the account's
\* credentials, status, statusReason and usage as they were, and has sent at
\* most one token request.
C13_FailureLeavesAccount ==
    [][(TokenRan /\ FailureCause(account[1], tokenReply'.token) \in ListedCauses)
        => /\ ~refreshResult'.ok
           /\ refreshResult'.message =
                ReasonOf(FailureCause(account[1], tokenReply'.token))
           /\ \A c, d \in ListedCauses : ReasonOf(c) = ReasonOf(d) => c = d
           /\ account' = account
           /\ refreshResult'.requests <= 1
           /\ refreshResult'.usageRequests = 0]_vars

\* C13 witness: an OIDC refresh ended in a timeout after its one request
C13_Witness ==
    /\ lastOp = "refresh_token"
    /\ tokenReply.token.kind = "timeout"
    /\ refreshResult.endpoint = "oidc"
    /\ refreshResult.requests = 1
    /\ ~refreshResult.ok
    /\ refreshResult.message = "Request timeout"
    /\ account[1].accessToken = "tok"
    /\ account[1].status = "expired"

-----------------------------------------------------------------------------
(* The refresh pass (auto_refresh_tokens_task)                               *)
(*                                                                           *)
(* The pass loads the pool and the settings, handles the accounts one by     *)
(* one (each may wait on the token endpoint, so the clock can advance        *)
(* between two accounts) and saves the pool when the loop is over.  The step *)
(* that handles the last account includes the save.  pass.log has one entry  *)
(* per account handled: its id, whether refresh_token was called for it and  *)
(* how the handling ended.                                                   *)

AutoRefresh(enabled, interval, refreshBeforeExpiry, minValidTime) ==
    [autoRefresh |-> [enabled |-> enabled, interval |-> interval,
                      refreshBeforeExpiry |-> refreshBeforeExpiry,
                      minValidTime |-> minValidTime]]

DefaultAutoRefresh == AutoRefresh(TRUE, 300, 300, 1800)

Max(a, b) == IF a >= b THEN a ELSE b

\* Whole seconds of validity left; 0 when expiresAt is absent or 0
get_token_remaining_time(a, t) ==
    IF a.expiresAt = 0 THEN 0 ELSE Max(0, (a.expiresAt - t) \div 1000)

should_refresh_account_min(a, settings, t) ==
    get_token_remaining_time(a, t) < settings.autoRefresh.refreshBeforeExpiry

should_refresh_account(a, settings, t) ==
    get_token_remaining_time(a, t) <
        Max(settings.autoRefresh.minValidTime,
            settings.autoRefresh.refreshBeforeExpiry)

\* The for loop has handled its last account once index i is done
LoopOver_onFailure(data, i, outcome) ==
    i = Len(data) \/ outcome \in {"failed", "raised"}

LoopOver(data, i, outcome) == i = Len(data)

\* Mutant of save_accounts: of an account that is in both documents the one
\* with the later expiresAt is kept
save_accounts_newerWins(data, stored) ==
    [k \in 1..Len(data) |->
        LET same == {j \in 1..Len(stored) : stored[j].id = data[k].id}
        IN  IF \E j \in same : stored[j].expiresAt > data[k].expiresAt
            THEN stored[CHOOSE j \in same :
                            stored[j].expiresAt > data[k].expiresAt]
            ELSE data[k]]

\* save_accounts(data): the document of the caller replaces the stored
\* document whole, whatever the store holds
save_accounts(data, stored) == data

\* Entry of the pass run by origin o: load_accounts, load_settings; an empty
\* pool is saved at once
auto_refresh_tokens_task(o) ==
    LET settings == load_settings
    IN  /\ DEFAULT_SETTINGS' = settings
        /\ pass' = [pass EXCEPT ![o] =
                      [pc |-> IF accounts = <<>> THEN "done" ELSE "loop",
                       data |-> accounts, settings |-> <<settings>>, i |-> 1,
                       refreshed |-> 0, failed |-> 0, skipped |-> 0,
                       log |-> <<>>,
                       saves |-> IF accounts = <<>> THEN 1 ELSE 0]]

\* The scheduler fires the 'auto_refresh' job.  max_instances = 1: a tick
\* that comes while the job's instance is running is skipped.
auto_refresh_job ==
    /\ pass.timer.pc # "loop"
    /\ runs < MaxPasses
    /\ auto_refresh_tokens_task("timer")
    /\ runs' = runs + 1
    /\ lastOp' = "auto_refresh_job"
    /\ Unchanged_rest
    /\ UNCHANGED <<accounts, settingsDoc, now, account, changed, switches,
                   settingsWrites, refreshResult, tokenReply>>
    /\ Unchanged_gateway

\* The clock advances while a pass waits on the token endpoint
PassWaits ==
    /\ \E o \in Origins : pass[o].pc = "loop"
    /\ now < MaxTime
    /\ now' = now + 1
    /\ lastOp' = "tick"
    /\ Unchanged_rest
    /\ UNCHANGED <<accounts, settingsDoc, DEFAULT_SETTINGS, account, changed,
                   runs, switches, settingsWrites>>
    /\ Unchanged_gateway /\ Unchanged_refresh

\* One iteration of the loop of the pass run by origin o: account
\* pass[o].data[pass[o].i].  raises stands for an exception raised while the
\* account is examined (line 618), as for an account whose 'credentials' is
\* null.  The iteration of the last account includes save_accounts, and for
\* a pass run by the trigger route the answer of the request.
auto_refresh_account(o, raises, reply, usage_reply) ==
    /\ pass[o].pc = "loop"
    /\ LET i == pass[o].i
           a == pass[o].data[i]
           due == ~raises /\ should_refresh_account(a, pass[o].settings[1], now)
           r == refresh_token(a, now, reply, usage_reply)
           outcome == IF raises THEN "raised"
                      ELSE IF ~due THEN "skipped"
                      ELSE IF r.ok THEN "refreshed" ELSE "failed"
           data == IF due THEN [pass[o].data EXCEPT ![i] = r.account]
                   ELSE pass[o].data
           over == LoopOver(pass[o].data, i, outcome)
       IN  /\ pass' = [pass EXCEPT
                        ![o].data = data,
                        ![o].i = i + 1,
                        ![o].refreshed = @ + (IF outcome = "refreshed" THEN 1 ELSE 0),
                        ![o].failed = @ + (IF outcome \in {"failed", "raised"}
                                           THEN 1 ELSE 0),
                        ![o].skipped = @ + (IF outcome = "skipped" THEN 1 ELSE 0),
                        ![o].log = Append(@, [id |-> a.id, invoked |-> due,
                                              outcome |-> outcome]),
                        ![o].pc = IF over THEN "done" ELSE "loop",
                        ![o].saves = IF over THEN @ + 1 ELSE @]
           /\ accounts' = IF over THEN save_accounts(data, accounts)
                        ELSE accounts
           /\ response' = IF over /\ o = "manual"
                          THEN [code |-> 200, type |-> "ok"]
                          ELSE response
    /\ lastOp' = "auto_refresh_account"
    /\ Unchanged_rest
    /\ UNCHANGED <<settingsDoc, DEFAULT_SETTINGS, now, account, changed, runs,
                   switches, settingsWrites, refreshResult, tokenReply>>
    /\ UNCHANGED <<authenticated, selected, upstreamOpened>>

-----------------------------------------------------------------------------
(* Specification of the refresh pass: a stored pool of accounts of either     *)
(* status with tokens at several distances from expiry, stored or default    *)
(* autoRefresh settings, up to MaxPasses passes by the timer, each from load *)
(* to save while the clock runs.                                             *)

PassAccounts ==
    {WithLogin(Account(NoId, st, NoReason, "r1", "tok", exp, 1, MaxUsage, 0, 0),
               "BuilderId", "IdC", "cid", "sec") :
        st \in {"active", "expired"}, exp \in {0, 2000}}

PassReplies == {r \in TokenReplies :
                    \/ r.kind = "http_error"
                    \/ r.kind = "ok" /\ r.refreshToken = "r2"
                                     /\ r.expiresIn = MaxExpiresIn}

InitPass ==
    /\ accounts \in PoolsUpTo(PassAccounts, MaxAccounts)
    /\ settingsDoc \in {<<>>, <<AutoRefresh(TRUE, 300, 1, 1)>>,
                        <<AutoRefresh(TRUE, 300, 1, 2)>>,
                        <<AutoRefresh(TRUE, 300, 2, 1)>>}
    /\ DEFAULT_SETTINGS = DefaultAutoRefresh
    /\ now = 0
    /\ lastOp = "init"
    /\ authenticated = FALSE
    /\ selected = <<>>
    /\ response = NoResponse
    /\ upstreamOpened = FALSE
    /\ account = <<>>
    /\ changed = FALSE
    /\ runs = 0
    /\ switches = 0
    /\ settingsWrites = 0
    /\ Idle_refresh
    /\ Idle_rest

NextPass ==
    \/ auto_refresh_job
    \/ \E raises \in BOOLEAN, reply \in PassReplies :
            auto_refresh_account("timer", raises, reply, <<>>)
    \/ PassWaits

SpecPass == InitPass /\ [][NextPass]_vars

\* A step that is one iteration of the loop of the pass
PassStep == pass.timer.pc = "loop" /\ pass'.timer.i = pass.timer.i + 1

\* Remaining token lifetime in milliseconds: max(0, expiresAt - now)
RemainingMs(a, t) == Max(0, a.expiresAt - t)

\* max(minValidTime, refreshBeforeExpiry) of the persisted settings, in ms
RefreshThresholdMs ==
    1000 * Max(load_settings.autoRefresh.minValidTime,
               load_settings.autoRefresh.refreshBeforeExpiry)

\* Number of calls of refresh_token the pass made for the account id
InvokedFor(id) ==
    Cardinality({k \in 1..Len(pass.timer.log) :
                    pass.timer.log[k].id = id /\ pass.timer.log[k].invoked})

\* C14: in one pass refresh_token is called for exactly the accounts whose
\* remaining lifetime max(0, expiresAt - now) is below
\* max(minValidTime, refreshBeforeExpiry) when their turn comes, whatever
\* their status, at most once per account, and at the end of the pass
\* refreshed + failed + skipped is the number of accounts of the pool.
C14_RefreshesExactlyDue ==
    /\ [](/\ \A k \in 1..Len(pass.timer.data) : InvokedFor(pass.timer.data[k].id) <= 1
          /\ pass.timer.pc = "done"
                => pass.timer.refreshed + pass.timer.failed + pass.timer.skipped = Len(accounts))
    /\ [][PassStep
           => LET a == pass.timer.data[pass.timer.i]
                  e == pass'.timer.log[pass.timer.i]
              IN  /\ e.id = a.id
                  /\ e.outcome # "raised"
                        => (e.invoked <=>
                               RemainingMs(a, now) < RefreshThresholdMs)
                  /\ e.outcome = "raised" => ~e.invoked]_vars

\* C14 witness: under a stored threshold of 2 s, an 'active' account with
\* less than 2 s left was refreshed and an 'expired' one with 2 s left skipped
C14_Witness ==
    /\ pass.timer.pc = "done"
    /\ settingsDoc # <<>>
    /\ Len(pass.timer.log) = 2
    /\ now = 0
    /\ pass.timer.log[1].outcome = "refreshed"
    /\ accounts[1].status = "active"
    /\ pass.timer.log[2].outcome = "skipped"
    /\ accounts[2].status = "expired"
    /\ accounts[2].expiresAt = 2000
    /\ pass.timer.refreshed = 1 /\ pass.timer.skipped = 1 /\ pass.timer.failed = 0

\* C15: the pass handles the accounts in pool order, a failure or an
\* exception on one account does not keep any later account from being
\* handled, and the pool is saved exactly once, after the last account
\* (never between two accounts).
C15_PassOrderAndSingleSave ==
    /\ Len(pass.timer.log) = pass.timer.i - 1
    /\ \A k \in 1..Len(pass.timer.log) : pass.timer.log[k].id = pass.timer.data[k].id
    /\ pass.timer.pc = "loop" => pass.timer.saves = 0 /\ pass.timer.i <= Len(pass.timer.data)
    /\ pass.timer.pc = "done"
        => /\ Len(pass.timer.log) = Len(pass.timer.data)
           /\ pass.timer.saves = 1
           /\ accounts = pass.timer.data

\* C15 witness: the first account raised, the last account of a full pool
\* was still refreshed, and the pool was saved once with its new token
C15_Witness ==
    /\ pass.timer.pc = "done"
    /\ Len(pass.timer.log) = MaxAccounts
    /\ pass.timer.log[1].outcome = "raised"
    /\ pass.timer.log[MaxAccounts].outcome = "refreshed"
    /\ pass.timer.failed >= 1
    /\ pass.timer.saves = 1
    /\ accounts[MaxAccounts].accessToken = "t2"


-----------------------------------------------------------------------------
(* Rotation of the current account *)

\* current_account of auto_switch_account_task: <<>> or <<account>>
current_account(pool, current_id) ==
    LET named == SelectSeq(pool, LAMBDA a : a.id = current_id)
    IN  IF current_id # NoId /\ named # <<>> THEN <<named[1]>> ELSE <<>>

\* Mutant of CurrentBelowThreshold: the task never stops at the current account
CurrentBelowThreshold_never(pool, settings) == FALSE

\* The early return: the current account exists and its usage is below the threshold
CurrentBelowThreshold(pool, settings) ==
    LET cur == current_account(pool, settings.autoSwitch.currentAccountId)
    IN  cur # <<>> /\ PctBelow(cur[1], settings.autoSwitch.switchThreshold)

\* Mutant of ShouldPromote: the usage of the best account is not compared
\* with the threshold
ShouldPromote_oneSided(best, settings) ==
    best # <<>> /\ best[1].id # settings.autoSwitch.currentAccountId

\* The best account becomes the current one
ShouldPromote(best, settings) ==
    /\ best # <<>>
    /\ best[1].id # settings.autoSwitch.currentAccountId
    /\ PctBelow(best[1], settings.autoSwitch.switchThreshold)

\* auto_switch_account_task(), without the caller's bookkeeping
auto_switch_account_task ==
    LET settings == load_settings
        best == find_best_account(accounts)
    IN  IF ~settings.autoSwitch.enabled
        THEN /\ DEFAULT_SETTINGS' = settings
             /\ UNCHANGED <<settingsDoc, switches, settingsWrites>>
        ELSE IF CurrentBelowThreshold(accounts, settings)
        THEN /\ DEFAULT_SETTINGS' = settings
             /\ UNCHANGED <<settingsDoc, switches, settingsWrites>>
        ELSE IF ShouldPromote(best, settings)
        THEN LET saved == [settings EXCEPT
                              !.autoSwitch.currentAccountId = best[1].id]
             IN  /\ DEFAULT_SETTINGS' = saved
                 /\ settingsDoc' = <<saved>>
                 /\ settingsWrites' = settingsWrites + 1
                 /\ switches' = IF saved.autoSwitch.currentAccountId
                                     # settings.autoSwitch.currentAccountId
                                THEN switches + 1 ELSE switches
        ELSE /\ DEFAULT_SETTINGS' = settings
             /\ UNCHANGED <<settingsDoc, switches, settingsWrites>>

\* The scheduler runs the 'auto_switch' job
auto_switch_job ==
    /\ runs < MaxRuns
    /\ auto_switch_account_task
    /\ runs' = runs + 1
    /\ lastOp' = "auto_switch_job"
    /\ Unchanged_rest
    /\ UNCHANGED <<accounts, now, response>>
    /\ UNCHANGED <<authenticated, selected, upstreamOpened>>
    /\ Unchanged_status /\ Unchanged_refresh

\* auto_status_check_task: every account of the stored pool is evaluated and
\* the pool is saved when a status changed
auto_status_check_task ==
    accounts' = [i \in 1..Len(accounts) |->
                    check_account_status(accounts[i], now).account]

\* POST /api/scheduler/trigger/<job_id>: the task runs in the thread of the
\* request, not through the scheduler.  The refresh pass goes on in
\* auto_refresh_account steps and the request is answered when it returns;
\* the model has one such request thread.
trigger_job(job_id) ==
    /\ lastOp' = "trigger_job"
    /\ Unchanged_rest
    /\ CASE job_id = "auto_refresh" ->
                /\ pass.manual.pc = "idle"
                /\ auto_refresh_tokens_task("manual")
                /\ response' = NoResponse
                /\ UNCHANGED <<accounts, settingsDoc, runs, switches,
                               settingsWrites, refreshResult, tokenReply>>
         [] job_id = "auto_switch" ->
                /\ runs < MaxRuns
                /\ auto_switch_account_task
                /\ runs' = runs + 1
                /\ response' = [code |-> 200, type |-> "ok"]
                /\ UNCHANGED accounts
                /\ Unchanged_refresh
         [] job_id = "status_check" ->
                /\ runs < MaxRuns
                /\ auto_status_check_task
                /\ response' = [code |-> 200, type |-> "ok"]
                /\ UNCHANGED <<settingsDoc, DEFAULT_SETTINGS, runs, switches,
                               settingsWrites>>
                /\ Unchanged_refresh
         [] OTHER ->
                /\ runs < MaxRuns
                /\ response' = [code |-> 404, type |-> "Unknown job"]
                /\ UNCHANGED <<accounts, settingsDoc, DEFAULT_SETTINGS, runs,
                               switches, settingsWrites>>
                /\ Unchanged_refresh
    /\ UNCHANGED now
    /\ UNCHANGED <<authenticated, selected, upstreamOpened>>
    /\ Unchanged_status

-----------------------------------------------------------------------------
(* Specification of rotation: a stored pool that does not change, stored      *)
(* auto-switch settings, and runs of the switch task by timer and by trigger. *)

SwitchAccounts ==
    {Account(NoId, st, NoReason, "r1", "tok", 0, u[1], u[2], 0, 0) :
        st \in {"active", "expired", "exhausted"}, u \in UsagePairs}

InitSwitch ==
    /\ accounts \in PoolsUpTo(SwitchAccounts, MaxAccounts)
    /\ settingsDoc \in {<<>>} \cup
            {<<AutoSwitch(e, t, c)>> :
                e \in BOOLEAN, t \in Thresholds, c \in 0..GhostId}
    /\ DEFAULT_SETTINGS = DefaultSettings
    /\ now = 0
    /\ lastOp = "init"
    /\ authenticated = FALSE
    /\ selected = <<>>
    /\ response = NoResponse
    /\ upstreamOpened = FALSE
    /\ account = <<>>
    /\ changed = FALSE
    /\ runs = 0
    /\ switches = 0
    /\ settingsWrites = 0
    /\ Idle_refresh
    /\ Idle_rest

NextSwitch ==
    \/ auto_switch_job
    \/ \E job_id \in {"auto_switch", "no_such_job"} : trigger_job(job_id)

SpecSwitch == InitSwitch /\ [][NextSwitch]_vars

\* A step in which the switch task ran
SwitchRan == runs' = runs + 1

AutoSwitchEnabled == load_settings.autoSwitch.enabled

SwitchThreshold == load_settings.autoSwitch.switchThreshold

\* Usage percentage of account a below / not below t, from current and limit
UsageBelow(a, t) == IF a.limit > 0 THEN a.current * 100 < t * a.limit ELSE 0 < t

\* The pool positions of the account the pointer names
CurrentIndexes == {i \in 1..Len(accounts) : accounts[i].id = CurrentAccountId}

\* The pool position of the lowest-usage active account (the earliest of them)
LowestActive ==
    CHOOSE i \in ActiveIndexes :
        /\ \A j \in ActiveIndexes : ~PctLess(UsageOf(j), UsageOf(i))
        /\ \A j \in ActiveIndexes : j < i => PctLess(UsageOf(i), UsageOf(j))

\* C7: the switch task never sets currentAccountId to an account whose usage
\* percentage is >= switchThreshold, even when that account is the
\* lowest-usage active account of the pool.
C7_NeverSwitchOverThreshold ==
    [][(SwitchRan /\ CurrentAccountId' # CurrentAccountId) =>
            \A i \in 1..Len(accounts) :
                accounts[i].id = CurrentAccountId' =>
                    UsageBelow(accounts[i], SwitchThreshold)]_vars

\* C7 witness: the task has run with the current account missing or over the
\* threshold, the lowest-usage active account is another account whose usage
\* is not below the threshold, and the pointer was left alone.
C7_Witness ==
    /\ runs >= 1 /\ switches = 0 /\ settingsWrites = 0
    /\ AutoSwitchEnabled
    /\ \A i \in CurrentIndexes : ~UsageBelow(accounts[i], SwitchThreshold)
    /\ ActiveIndexes # {}
    /\ accounts[LowestActive].id # CurrentAccountId
    /\ ~UsageBelow(accounts[LowestActive], SwitchThreshold)

C9_PromotesLowestActive ==
    [][(SwitchRan /\ AutoSwitchEnabled
          /\ \A i \in CurrentIndexes : ~UsageBelow(accounts[i], SwitchThreshold)) =>
            /\ IF /\ ActiveIndexes # {}
                  /\ accounts[LowestActive].id # CurrentAccountId
                  /\ UsageBelow(accounts[LowestActive], SwitchThreshold)
               THEN CurrentAccountId' = accounts[LowestActive].id
               ELSE CurrentAccountId' = CurrentAccountId
            /\ CurrentAccountId' # CurrentAccountId =>
                 \E i \in ActiveIndexes : accounts[i].id = CurrentAccountId']_vars

\* C9 witness: a run moved the pointer to an active account, while another
\* active account has a higher usage that is below the threshold too.
C9_Witness ==
    /\ switches = 1
    /\ \E i \in ActiveIndexes :
          /\ accounts[i].id = CurrentAccountId
          /\ \E j \in ActiveIndexes :
                /\ PctLess(UsageOf(i), UsageOf(j))
                /\ UsageBelow(accounts[j], SwitchThreshold)

\* C10: with the pool unchanged, consecutive runs of the switch task change
\* currentAccountId at most once, and never when every active account has a
\* usage >= switchThreshold.
C10_NoThrash ==
    /\ switches <= 1
    /\ (\A i \in ActiveIndexes : ~UsageBelow(accounts[i], SwitchThreshold))
         => switches = 0

\* C10 witness: the task ran at least three times in a pool with two active
\* accounts below the threshold, and the pointer changed once.
C10_Witness ==
    /\ runs >= 3
    /\ switches = 1
    /\ \E i, j \in ActiveIndexes :
          /\ i # j
          /\ UsageBelow(accounts[i], SwitchThreshold)
          /\ UsageBelow(accounts[j], SwitchThreshold)

-----------------------------------------------------------------------------
(* Specification of timer and trigger: a stored pool, the 'auto_refresh' job  *)
(* of the scheduler, and requests to the trigger route for the refresh pass,  *)
(* the status check and an unknown job, each pass going on account by         *)
(* account.                                                                   *)

InitTrigger ==
    /\ accounts \in PoolsUpTo(PassAccounts, MaxAccounts)
    /\ settingsDoc = <<AutoRefresh(TRUE, 300, 1, 2)>>
    /\ DEFAULT_SETTINGS = DefaultAutoRefresh
    /\ now = 0
    /\ lastOp = "init"
    /\ authenticated = FALSE
    /\ selected = <<>>
    /\ response = NoResponse
    /\ upstreamOpened = FALSE
    /\ account = <<>>
    /\ changed = FALSE
    /\ runs = 0
    /\ switches = 0
    /\ settingsWrites = 0
    /\ Idle_refresh
    /\ Idle_rest

NextTrigger ==
    \/ auto_refresh_job
    \/ \E job_id \in {"auto_refresh", "status_check", "no_such_job"} :
            trigger_job(job_id)
    \/ \E o \in Origins, reply \in PassReplies :
            auto_refresh_account(o, FALSE, reply, <<>>)

SpecTrigger == InitTrigger /\ [][NextTrigger]_vars

\* Number of instances of the refresh task that are executing
RunningRefreshInstances == Cardinality({o \in Origins : pass[o].pc = "loop"})

\* C16: at no time do two instances of the same maintenance task execute
\* at once, whether started by the timer or by the trigger route.
C16_OneInstancePerTask == RunningRefreshInstances <= 1

\* C16 for the timer alone: a tick that comes while the timer's instance is
\* running starts nothing (the running instance keeps its progress)
C16_TimerTickSkipped ==
    [][pass.timer.pc = "loop"
        => Len(pass'.timer.log) >= Len(pass.timer.log)]_vars

-----------------------------------------------------------------------------
(* Reconfiguration of the scheduler (update_settings, setup_scheduler)       *)
(*                                                                           *)
(* Each request runs in its own thread.  load_settings returns a shallow     *)
(* copy of DEFAULT_SETTINGS, so the 'settings' of every thread shares its    *)
(* sections with the module-level dict: a thread reads a section as it is    *)
(* at the moment of the read.  A thread can be preempted between reading a   *)
(* job's settings and calling add_job; the store operations and the          *)
(* scheduler calls themselves are atomic.                                    *)

MaxUpdates == 2

FullDefaultSettings ==
    [autoRefresh |-> [enabled |-> TRUE, interval |-> 300,
                      refreshBeforeExpiry |-> 300, minValidTime |-> 1800],
     autoSwitch |-> [enabled |-> FALSE, checkInterval |-> 1800,
                     switchThreshold |-> 90, currentAccountId |-> NoId],
     statusCheck |-> [enabled |-> TRUE, interval |-> 300]]

\* Bodies of PUT /api/settings
SettingsPatches ==
    {[autoRefresh |-> [interval |-> 60]],
     [autoSwitch |-> [enabled |-> TRUE]],
     [statusCheck |-> [enabled |-> FALSE]],
     [autoRefresh |-> [enabled |-> FALSE], statusCheck |-> [interval |-> 60]]}

\* current_settings[key].update(new_settings[key]) for the keys both have
merge_settings(current_settings, new_settings) ==
    [key \in DOMAIN current_settings |->
        IF key \in DOMAIN new_settings
        THEN [k \in DOMAIN current_settings[key] \cup DOMAIN new_settings[key] |->
                IF k \in DOMAIN new_settings[key]
                THEN new_settings[key][k]
                ELSE current_settings[key][k]]
        ELSE current_settings[key]]

\* The section and the key that hold a job's switch and period
JobSection(id) ==
    CASE id = "auto_refresh" -> "autoRefresh"
      [] id = "auto_switch" -> "autoSwitch"
      [] id = "status_check" -> "statusCheck"

JobInterval(settings, id) ==
    IF id = "auto_switch" THEN settings.autoSwitch.checkInterval
    ELSE settings[JobSection(id)].interval

JobEnabled(settings, id) == settings[JobSection(id)].enabled

\* Where setup_scheduler goes after job number k: the next job or the end
AfterJob(k) == IF k < Len(JobIds) THEN k + 1 ELSE 0

\* PUT /api/settings, up to the save: load_settings, merge, save_settings
update_settings(t, new_settings) ==
    /\ threads[t].pc = "idle"
    /\ runs < MaxUpdates
    /\ LET current_settings == merge_settings(load_settings, new_settings)
       IN  /\ DEFAULT_SETTINGS' = current_settings
           /\ settingsDoc' = <<current_settings>>
    /\ threads' = [threads EXCEPT ![t].pc = "setup"]
    /\ runs' = runs + 1
    /\ lastOp' = "update_settings"
    /\ UNCHANGED <<accounts, now, account, changed, switches, settingsWrites,
                   jobs, scheduler_jobs>>
    /\ Unchanged_gateway /\ Unchanged_refresh /\ Unchanged_decode
    /\ Unchanged_chat /\ Unchanged_requests

\* setup_scheduler, lines 715-723: load_settings, remove the jobs that
\* scheduler_jobs names, clear scheduler_jobs
setup_scheduler_remove(t) ==
    /\ threads[t].pc = "setup"
    /\ DEFAULT_SETTINGS' = load_settings
    /\ jobs' = [id \in DOMAIN jobs |->
                    IF id \in scheduler_jobs THEN <<>> ELSE jobs[id]]
    /\ scheduler_jobs' = {}
    /\ threads' = [threads EXCEPT ![t].pc = "read", ![t].job = 1]
    /\ lastOp' = "setup_scheduler_remove"
    /\ UNCHANGED <<accounts, settingsDoc, now, account, changed, runs,
                   switches, settingsWrites>>
    /\ Unchanged_gateway /\ Unchanged_refresh /\ Unchanged_decode
    /\ Unchanged_chat /\ Unchanged_requests

\* setup_scheduler reads the switch and the period of its next job
setup_scheduler_read(t) ==
    /\ threads[t].pc = "read"
    /\ LET k == threads[t].job
           id == JobIds[k]
           on == JobEnabled(DEFAULT_SETTINGS, id)
       IN  threads' = [threads EXCEPT
                        ![t].enabled = on,
                        ![t].interval = IF on THEN JobInterval(DEFAULT_SETTINGS, id)
                                        ELSE 0,
                        ![t].pc = IF on THEN "add"
                                  ELSE IF AfterJob(k) = 0 THEN "idle" ELSE "read",
                        ![t].job = IF on THEN k ELSE AfterJob(k)]
    /\ lastOp' = "setup_scheduler_read"
    /\ UNCHANGED <<accounts, settingsDoc, DEFAULT_SETTINGS, now, account,
                   changed, runs, switches, settingsWrites, jobs,
                   scheduler_jobs>>
    /\ Unchanged_gateway /\ Unchanged_refresh /\ Unchanged_decode
    /\ Unchanged_chat /\ Unchanged_requests

\* scheduler.add_job(..., id, replace_existing=True); scheduler_jobs[id] = job
setup_scheduler_add(t) ==
    /\ threads[t].pc = "add"
    /\ LET k == threads[t].job
           id == JobIds[k]
       IN  /\ jobs' = [jobs EXCEPT ![id] = <<threads[t].interval>>]
           /\ scheduler_jobs' = scheduler_jobs \cup {id}
           /\ threads' = [threads EXCEPT
                            ![t].pc = IF AfterJob(k) = 0 THEN "idle" ELSE "read",
                            ![t].job = AfterJob(k)]
    /\ lastOp' = "setup_scheduler_add"
    /\ UNCHANGED <<accounts, settingsDoc, DEFAULT_SETTINGS, now, account,
                   changed, runs, switches, settingsWrites>>
    /\ Unchanged_gateway /\ Unchanged_refresh /\ Unchanged_decode
    /\ Unchanged_chat /\ Unchanged_requests

\* The jobs setup_scheduler installs when it runs alone
InstalledFor(settings) ==
    [id \in {JobIds[k] : k \in 1..Len(JobIds)} |->
        IF JobEnabled(settings, id) THEN <<JobInterval(settings, id)>> ELSE <<>>]

-----------------------------------------------------------------------------
(* Specification of reconfiguration: the scheduler as the start of the        *)
(* module set it up from the defaults or from a stored document, and up to    *)
(* MaxUpdates settings updates served by two request threads.                 *)

StoredSettings ==
    {<<>>, <<merge_settings(FullDefaultSettings,
                            [autoSwitch |-> [enabled |-> TRUE]])>>}

InitSched ==
    /\ settingsDoc \in StoredSettings
    /\ DEFAULT_SETTINGS = IF settingsDoc = <<>> THEN FullDefaultSettings
                          ELSE settingsDoc[1]
    /\ jobs = InstalledFor(DEFAULT_SETTINGS)
    /\ scheduler_jobs = {id \in DOMAIN jobs : jobs[id] # <<>>}
    /\ threads = [t \in ThreadIds |-> NoThread]
    /\ accounts = <<>>
    /\ now = 0
    /\ lastOp = "init"
    /\ authenticated = FALSE
    /\ selected = <<>>
    /\ response = NoResponse
    /\ upstreamOpened = FALSE
    /\ account = <<>>
    /\ changed = FALSE
    /\ runs = 0
    /\ switches = 0
    /\ settingsWrites = 0
    /\ Idle_refresh
    /\ Idle_decode
    /\ Idle_chat /\ Idle_requests

NextSched ==
    \/ \E t \in ThreadIds, new_settings \in SettingsPatches :
            update_settings(t, new_settings)
    \/ \E t \in ThreadIds : setup_scheduler_remove(t)
    \/ \E t \in ThreadIds : setup_scheduler_read(t)
    \/ \E t \in ThreadIds : setup_scheduler_add(t)

SpecSched == InitSched /\ [][NextSched]_vars

\* The settings document a load returns once no request is in flight
PersistedSettings ==
    IF settingsDoc = <<>> THEN FullDefaultSettings ELSE settingsDoc[1]

NoUpdateInFlight == \A t \in ThreadIds : threads[t].pc = "idle"

\* C17: once every settings update in flight has completed, the installed
\* periodic jobs are exactly the tasks enabled in the persisted settings,
\* each with the persisted interval.
C17_JobsMatchPersistedSettings ==
    NoUpdateInFlight => jobs = InstalledFor(PersistedSettings)

\* C17 for one update on its own: when the only update made so far has
\* completed, the installed jobs are those of the persisted settings
C17_SingleUpdateMatches ==
    (NoUpdateInFlight /\ runs <= 1) => jobs = InstalledFor(PersistedSettings)

-----------------------------------------------------------------------------
(* Frame decoder (src/kiro_chat.py: parse_stream_message, stream_response)   *)
(*                                                                           *)
(* A byte is an integer 0..255, a buffer a sequence of bytes.  The JSON the  *)
(* upstream sends is reduced to a small language with the same ways to go    *)
(* wrong: an object is '{' text '}' with text over the letters a and b,      *)
(* read as {"content": text}; '{}' is the object without content; '{!'     *)
(* text '}' is read as {"error": text}; any other byte string (one cut       *)
(* short, one holding a byte that is not UTF-8) does not parse.              *)

MaxFrames == 2

LBrace == 123
RBrace == 125
Letters == {97, 98}
NotUtf8 == 255

\* The byte that stands for the key 'error'
ErrorKey == <<33>>

\* json.loads(payload_data.decode('utf-8')): <<>> when it raises, else <<object>>
json_loads(bytes) ==
    IF /\ Len(bytes) >= 2
       /\ bytes[1] = LBrace
       /\ bytes[Len(bytes)] = RBrace
       /\ \A k \in 2..(Len(bytes) - 1) : bytes[k] \in Letters
    THEN <<[content |-> SubSeq(bytes, 2, Len(bytes) - 1)]>>
    ELSE IF /\ Len(bytes) >= 3
            /\ bytes[1] = LBrace
            /\ <<bytes[2]>> = ErrorKey
            /\ bytes[Len(bytes)] = RBrace
            /\ \A k \in 3..(Len(bytes) - 1) : bytes[k] \in Letters
    THEN <<[content |-> <<>>, error |-> SubSeq(bytes, 3, Len(bytes) - 1)]>>
    ELSE <<>>

\* json.dumps of an object of the small language
json_dumps(obj) ==
    IF "error" \in DOMAIN obj
    THEN <<LBrace>> \o ErrorKey \o obj.error \o <<RBrace>>
    ELSE <<LBrace>> \o obj.content \o <<RBrace>>

\* struct.pack('>I', n) for the lengths the model encodes (n < 2^31)
pack_uint32(n) ==
    <<(n \div 16777216) % 256, (n \div 65536) % 256, (n \div 256) % 256,
      n % 256>>

\* struct.unpack('>I', b)[0].  TLC integers stop at 2^31 - 1: the values from
\* 2^31 on are represented by 2^31 - 1; the code compares them with the
\* 16 MiB ceiling before any other use.
unpack_uint32(b) ==
    IF b[1] >= 128 THEN 2147483647
    ELSE b[1] * 16777216 + b[2] * 65536 + b[3] * 256 + b[4]

payload_start_noPreludeWord(header_length) == 8 + header_length

payload_start(header_length) == 12 + header_length

\* Mutant of consumed_on_bad_length: the decoder waits for more data
consumed_on_bad_length_wait(total_length) == 0

\* return None, 1 for a total_length out of range
consumed_on_bad_length(total_length) == 1

consumed_on_bad_payload_oneByte(total_length) == 1

consumed_on_bad_payload(total_length) == total_length

\* parse_stream_message(buffer): the pair (message, consumed), with the
\* message None as <<>>
parse_stream_message(buf) ==
    IF Len(buf) < 16 THEN [message |-> <<>>, consumed |-> 0]
    ELSE
    LET total_length == unpack_uint32(SubSeq(buf, 1, 4))
    IN  IF total_length < 16 \/ total_length > 16 * 1024 * 1024
        THEN [message |-> <<>>,
              consumed |-> consumed_on_bad_length(total_length)]
        ELSE IF Len(buf) < total_length
        THEN [message |-> <<>>, consumed |-> 0]
        ELSE
        LET header_length == unpack_uint32(SubSeq(buf, 5, 8))
            start == payload_start(header_length)
            end == total_length - 4
        IN  IF start > end \/ end > Len(buf)
            THEN [message |-> <<>>, consumed |-> 0]
            ELSE LET payload == json_loads(SubSeq(buf, start + 1, end))
                 IN  IF payload # <<>>
                     THEN [message |-> payload, consumed |-> total_length]
                     ELSE [message |-> <<>>,
                           consumed |-> consumed_on_bad_payload(total_length)]

\* The while loop of stream_response on the buffer buf: what is left of the
\* buffer, the messages parsed and the events yielded
RECURSIVE Drain(_, _, _)
Drain(buf, msgs, events) ==
    IF Len(buf) < 16 THEN [buffer |-> buf, parsed |-> msgs, emitted |-> events]
    ELSE LET r == parse_stream_message(buf)
         IN  IF r.consumed = 0
             THEN [buffer |-> buf, parsed |-> msgs, emitted |-> events]
             ELSE Drain(SubSeq(buf, r.consumed + 1, Len(buf)),
                        msgs \o r.message,
                        IF r.message # <<>> /\ r.message[1].content # <<>>
                        THEN Append(events, [content |-> r.message[1].content])
                        ELSE events)

\* One iteration of 'for chunk in response.iter_content(...)': the next n
\* bytes of the stream arrive
stream_response(n) ==
    /\ wire # <<>>
    /\ n \in 1..Len(wire)
    /\ LET r == Drain(buffer \o SubSeq(wire, 1, n), parsed, emitted)
       IN  /\ buffer' = r.buffer
           /\ parsed' = r.parsed
           /\ emitted' = r.emitted
    /\ wire' = SubSeq(wire, n + 1, Len(wire))
    /\ lastOp' = "stream_response"
    /\ UNCHANGED <<accounts, settingsDoc, DEFAULT_SETTINGS, now, account,
                   changed, runs, switches, settingsWrites, frames>>
    /\ Unchanged_gateway /\ Unchanged_refresh /\ Unchanged_sched
    /\ Unchanged_chat /\ Unchanged_requests

-----------------------------------------------------------------------------
(* Specification of decoding: a stream of up to MaxFrames frames, delivered   *)
(* in chunks of every size.  A frame is described by the number of prelude    *)
(* bytes before its header section (12 on the wire of the upstream: total     *)
(* length, header length and one more 4-byte word; 8 without that word), its  *)
(* header section, its payload bytes and the total length it declares.        *)

Frame(prelude, header, payload) ==
    [prelude |-> prelude, header |-> header, payload |-> payload,
     total |-> prelude + Len(header) + Len(payload) + 4]

ShortFrame == [prelude |-> 4, header |-> <<>>, payload |-> <<7>>, total |-> 5]

\* The bytes of a frame
encode_frame(f) ==
    pack_uint32(f.total)
    \o (IF f.prelude >= 8
        THEN pack_uint32(IF "header_length" \in DOMAIN f THEN f.header_length
                         ELSE Len(f.header))
        ELSE <<>>)
    \o (IF f.prelude >= 12 THEN <<0, 0, 0, 0>> ELSE <<>>)
    \o f.header \o f.payload
    \o (IF f.prelude >= 8 THEN <<0, 0, 0, 0>> ELSE <<>>)

RECURSIVE encode_stream(_)
encode_stream(fs) ==
    IF fs = <<>> THEN <<>> ELSE encode_frame(Head(fs)) \o encode_stream(Tail(fs))

ValidFrames ==
    {Frame(12, <<>>, json_dumps([content |-> <<97>>])),
     Frame(12, <<9>>, json_dumps([content |-> <<98, 97>>])),
     Frame(12, <<>>, json_dumps([content |-> <<>>]))}

BadPayloadFrames ==
    {Frame(12, <<>>, <<LBrace, 97>>), Frame(12, <<9>>, <<LBrace, NotUtf8, RBrace>>)}

NoPreludeWordFrames ==
    {Frame(8, <<>>, json_dumps([content |-> <<97, 98, 97, 98>>]))}

StreamFrames ==
    ValidFrames \cup BadPayloadFrames \cup NoPreludeWordFrames \cup {ShortFrame}

InitDecode ==
    /\ frames \in UNION {[1..n -> StreamFrames] : n \in 0..MaxFrames}
    /\ wire = encode_stream(frames)
    /\ buffer = <<>>
    /\ parsed = <<>>
    /\ emitted = <<>>
    /\ accounts = <<>>
    /\ settingsDoc = <<>>
    /\ DEFAULT_SETTINGS = DefaultSettings
    /\ now = 0
    /\ lastOp = "init"
    /\ authenticated = FALSE
    /\ selected = <<>>
    /\ response = NoResponse
    /\ upstreamOpened = FALSE
    /\ account = <<>>
    /\ changed = FALSE
    /\ runs = 0
    /\ switches = 0
    /\ settingsWrites = 0
    /\ Idle_refresh
    /\ Idle_sched
    /\ Idle_chat /\ Idle_requests

NextDecode == \E n \in 1..(Len(wire) + 1) : stream_response(n)

SpecDecode == InitDecode /\ [][NextDecode]_vars

\* The payload objects of the frames fs, in order (a payload that is not
\* JSON contributes none)
RECURSIVE PayloadsOf(_)
PayloadsOf(fs) ==
    IF fs = <<>> THEN <<>>
    ELSE json_loads(Head(fs).payload) \o PayloadsOf(Tail(fs))

\* The content events of the payload objects msgs
RECURSIVE ContentEvents(_)
ContentEvents(msgs) ==
    IF msgs = <<>> THEN <<>>
    ELSE (IF Head(msgs).content # <<>> THEN <<[content |-> Head(msgs).content]>>
          ELSE <<>>) \o ContentEvents(Tail(msgs))

AllFramesIn(S) == frames # <<>> /\ \A k \in 1..Len(frames) : frames[k] \in S

StreamEnded == wire = <<>> /\ lastOp = "stream_response"

\* Bytes the decoder has removed from its buffer so far
ConsumedBytes == Len(encode_stream(frames)) - Len(wire) - Len(buffer)

\* C18 as stated: frames laid out as total length, header length, header
\* section, JSON payload and 4-byte trailer decode to their payloads in order.
\* Violated: the decoder reads the payload from byte 12 + header_length on, so
\* the first four payload bytes of such a frame are taken for prelude.
C18_RoundTripClaimedLayout ==
    (StreamEnded /\ AllFramesIn(NoPreludeWordFrames))
        => parsed = PayloadsOf(frames)

\* C18 amended: for frames with the 12-byte prelude (total length, header
\* length, one more 4-byte word) before the header section, whatever part of
\* the stream has arrived in whatever chunks, decoding the rest yields exactly
\* the original payloads in order, a content event for each payload with
\* content, and an empty buffer.
C18_RoundTripWithPrelude ==
    AllFramesIn(ValidFrames)
        => LET r == Drain(buffer \o wire, parsed, emitted)
           IN  /\ r.parsed = PayloadsOf(frames)
               /\ r.emitted = ContentEvents(PayloadsOf(frames))
               /\ r.buffer = <<>>
               /\ (wire = <<>> => parsed = PayloadsOf(frames) /\ buffer = <<>>)

\* C18 witness: a stream of two different frames, one with a header section,
\* has ended and both payloads were decoded in order.
C18_Witness ==
    /\ StreamEnded
    /\ Len(frames) = 2
    /\ frames[1].header # <<>> /\ frames[2].header = <<>>
    /\ AllFramesIn(ValidFrames)
    /\ parsed = <<[content |-> <<98, 97>>], [content |-> <<97>>]>>
    /\ emitted = parsed

\* C19: after a frame that declares total_length 5, every following valid
\* frame's payload is decoded unaltered and in order.  Violated: the decoder
\* drops one byte, reads the next four (0, 0, 5, x) as a total length of
\* 1280 + x and waits for that many bytes; the valid frames are never decoded.
C19_ShortFrameSkipped ==
    (/\ StreamEnded
     /\ Len(frames) >= 2
     /\ frames[1] = ShortFrame
     /\ \A k \in 2..Len(frames) : frames[k] \in ValidFrames)
        => parsed = PayloadsOf(Tail(frames))

\* C20: in a stream of complete frames some of whose payloads are not valid
\* UTF-8 JSON, the decoder removes whole frames only (the bytes removed are
\* always those of the first k frames), a frame with a bad payload yields no
\* message and no event, and the frames after it are decoded as without it.
C20_BadPayloadConsumedInFull ==
    (/\ AllFramesIn(ValidFrames \cup BadPayloadFrames)
     /\ \E k \in 1..Len(frames) : frames[k] \in BadPayloadFrames)
        => /\ \E k \in 0..Len(frames) :
                /\ ConsumedBytes = Len(encode_stream(SubSeq(frames, 1, k)))
                /\ parsed = PayloadsOf(SubSeq(frames, 1, k))
                /\ emitted = ContentEvents(parsed)
                /\ (wire = <<>> => k = Len(frames))
           /\ (wire = <<>> => buffer = <<>>)

\* C20 witness: a frame whose payload is not UTF-8 was followed by a valid
\* frame; the stream has ended with the valid frame's event only.
C20_Witness ==
    /\ StreamEnded
    /\ Len(frames) = 2
    /\ NotUtf8 \in {frames[1].payload[k] : k \in 1..Len(frames[1].payload)}
    /\ frames[2] \in ValidFrames
    /\ emitted = <<[content |-> <<97>>]>>
    /\ buffer = <<>>

-----------------------------------------------------------------------------
(* Upstream request builder (src/kiro_chat.py:                               *)
(* convert_to_codewhisperer_request).  A text is a sequence of characters;   *)
(* a message content is a plain string, a list of typed blocks, or neither.  *)

MaxMessages == 3

Newline == 10

OK == <<79, 75>>

StrContent(text) == [kind |-> "str", text |-> text, blocks |-> <<>>]

ListContent(blocks) == [kind |-> "list", text |-> <<>>, blocks |-> blocks]

NoContent == [kind |-> "none", text |-> <<>>, blocks |-> <<>>]

\* sep.join(texts)
RECURSIVE Join(_, _)
Join(texts, sep) ==
    IF texts = <<>> THEN <<>>
    ELSE IF Len(texts) = 1 THEN texts[1]
    ELSE texts[1] \o sep \o Join(Tail(texts), sep)

\* [f(x) for x in xs]
TextsOf(xs, f(_)) == [k \in 1..Len(xs) |-> f(xs[k])]

extract_text_content(content) ==
    IF content.kind = "str" THEN content.text
    ELSE IF content.kind = "list"
    THEN Join(TextsOf(SelectSeq(content.blocks, LAMBDA b : b.type = "text"),
                      LAMBDA b : b.text), <<>>)
    ELSE <<>>

MessageText(m) == extract_text_content(m.content)

userInputMessage(content) == [turn |-> "user", content |-> content]

assistantResponseMessage(content) == [turn |-> "assistant", content |-> content]

\* The user turn made of the 'user' messages of user_buffer
BufferedTurn(user_buffer) ==
    userInputMessage(
        Join(TextsOf(SelectSeq(user_buffer, LAMBDA m : m.role = "user"),
                     MessageText), <<Newline>>))

loop_end_whole_list(non_system_messages) == Len(non_system_messages)

\* range(len(non_system_messages) - 1): the last index the loop visits
loop_end(non_system_messages) == Len(non_system_messages) - 1

\* The loop over non_system_messages from index i on: the history and the
\* user_buffer it ends with
RECURSIVE HistoryLoop(_, _, _, _)
HistoryLoop(non_system_messages, i, user_buffer, history) ==
    IF i > loop_end(non_system_messages)
    THEN [history |-> history, user_buffer |-> user_buffer]
    ELSE LET msg == non_system_messages[i]
         IN  IF msg.role \in {"user", "tool"}
             THEN HistoryLoop(non_system_messages, i + 1,
                              Append(user_buffer, msg), history)
             ELSE IF msg.role = "assistant"
             THEN HistoryLoop(non_system_messages, i + 1, <<>>,
                      (IF user_buffer # <<>>
                       THEN Append(history, BufferedTurn(user_buffer))
                       ELSE history)
                      \o <<assistantResponseMessage(MessageText(msg))>>)
             ELSE HistoryLoop(non_system_messages, i + 1, user_buffer, history)

\* convert_to_codewhisperer_request(messages, model): <<>> for the empty
\* dict, else the history and the content of currentMessage
convert_to_codewhisperer_request(msgs) ==
    LET system_messages == SelectSeq(msgs, LAMBDA m : m.role = "system")
        non_system_messages == SelectSeq(msgs, LAMBDA m : m.role # "system")
        h0 == IF system_messages # <<>>
              THEN <<userInputMessage(
                         Join(TextsOf(system_messages, MessageText),
                              <<Newline>>)),
                     assistantResponseMessage(OK)>>
              ELSE <<>>
        r == HistoryLoop(non_system_messages, 1, <<>>, h0)
        history == IF r.user_buffer # <<>>
                   THEN r.history \o <<BufferedTurn(r.user_buffer),
                                       assistantResponseMessage(OK)>>
                   ELSE r.history
    IN  IF non_system_messages = <<>> THEN <<>>
        ELSE <<[history |-> history,
                content |-> MessageText(
                    non_system_messages[Len(non_system_messages)])]>>

Unchanged_pool ==
    UNCHANGED <<accounts, settingsDoc, DEFAULT_SETTINGS, now, account, changed,
                runs, switches, settingsWrites>>

Idle_pool ==
    /\ accounts = <<>>
    /\ settingsDoc = <<>>
    /\ DEFAULT_SETTINGS = DefaultSettings
    /\ now = 0
    /\ authenticated = FALSE
    /\ selected = <<>>
    /\ response = NoResponse
    /\ upstreamOpened = FALSE
    /\ account = <<>>
    /\ changed = FALSE
    /\ runs = 0
    /\ switches = 0
    /\ settingsWrites = 0

\* One call of the builder on the message list of the request
build_request ==
    /\ lastOp = "init"
    /\ kiro_request' = convert_to_codewhisperer_request(messages)
    /\ lastOp' = "convert_to_codewhisperer_request"
    /\ UNCHANGED <<messages, upstream, sse, completion>>
    /\ Unchanged_pool /\ Unchanged_gateway /\ Unchanged_refresh
    /\ Unchanged_sched /\ Unchanged_decode /\ Unchanged_requests

-----------------------------------------------------------------------------
(* Specification of request building: every list of up to MaxMessages        *)
(* messages of the four roles.                                               *)

Roles == {"system", "user", "assistant", "tool"}

Texts == {<<97>>, <<98>>}

ChatMessages == {[role |-> r, content |-> StrContent(t)] : r \in Roles, t \in Texts}

InitBuild ==
    /\ messages \in UNION {[1..n -> ChatMessages] : n \in 0..MaxMessages}
    /\ kiro_request = <<>>
    /\ upstream = NoUpstream
    /\ sse = NoStream
    /\ completion = NoCompletion
    /\ lastOp = "init"
    /\ Idle_pool
    /\ Idle_refresh /\ Idle_sched /\ Idle_decode /\ Idle_requests

NextBuild == build_request

SpecBuild == InitBuild /\ [][NextBuild]_vars

Built == lastOp = "convert_to_codewhisperer_request"

NonSystem(msgs) == SelectSeq(msgs, LAMBDA m : m.role # "system")

SystemTexts(msgs) ==
    TextsOf(SelectSeq(msgs, LAMBDA m : m.role = "system"), MessageText)

\* A turn of the history holds the character c
HistoryHolds(c) ==
    \E k \in 1..Len(kiro_request[1].history) :
        \E j \in 1..Len(kiro_request[1].history[k].content) :
            kiro_request[1].history[k].content[j] = c

-----------------------------------------------------------------------------
(* Streaming response encoders (src/app.py: chat_completions.generate,       *)
(* anthropic_messages.generate; src/api_converters.py).                      *)
(*                                                                           *)
(* What a generator yields is a string; the model keeps of it the event it   *)
(* spells, the text and finish reason it carries, and 'eol': whether the     *)
(* string ends with the blank line (two newline characters) that ends an     *)
(* event of a text/event-stream.  The strings built in api_converters.py     *)
(* end with newline characters; those built in app.py end with the four      *)
(* characters backslash, n, backslash, n.                                    *)

MaxEvents == 3

NoFinish == "null"

Yielded(event, text, finish, eol) ==
    [event |-> event, text |-> text, finish |-> finish, eol |-> eol]

\* create_openai_chunk(content, model, finish_reason)
create_openai_chunk(content, finish_reason) ==
    Yielded("chunk", content, finish_reason, TRUE)

\* create_anthropic_chunk(content, model, message_id, finish_reason)
create_anthropic_chunk(content, finish_reason) ==
    IF finish_reason # NoFinish
    THEN Yielded("message_delta", "", finish_reason, TRUE)
    ELSE Yielded("content_block_delta", content, NoFinish, TRUE)

\* A string built in app.py: its line ends are written '\\n' in the source
app_literal(event) == Yielded(event, "", NoFinish, FALSE)

\* The events kiro_chat.call_kiro_chat_stream yields, as
\* kiro_chat.parse_kiro_stream_chunk returns them: a content event with its
\* text, an error event, or something that is neither
ContentEvent(text) == [type |-> "content", text |-> text]

ErrorEvent == [type |-> "error", text |-> ""]

OtherEvent == [type |-> "other", text |-> ""]

UpstreamEvents ==
    {ContentEvent("a"), ContentEvent("b"), ContentEvent(""), ErrorEvent, OtherEvent}

Dialects == {"openai", "anthropic"}

\* generate() up to its for loop
generate_open(dialect) ==
    /\ sse.pc = "idle"
    /\ sse' = [dialect |-> dialect, pc |-> "loop",
               out |-> IF dialect = "openai"
                       THEN <<create_openai_chunk("", NoFinish)>>
                       ELSE <<app_literal("message_start"),
                              app_literal("content_block_start")>>]
    /\ lastOp' = "generate"
    /\ UNCHANGED <<messages, kiro_request, upstream, completion>>
    /\ Unchanged_pool /\ Unchanged_gateway /\ Unchanged_refresh
    /\ Unchanged_sched /\ Unchanged_decode /\ Unchanged_requests

\* One iteration of the for loop of generate(); an error event raises, and
\* the except clause yields the error string and ends the generator
generate_chunk ==
    /\ sse.pc = "loop"
    /\ upstream.next <= Len(upstream.events)
    /\ LET parsed_chunk == upstream.events[upstream.next]
       IN  sse' = IF parsed_chunk.type = "content" /\ parsed_chunk.text # ""
                  THEN [sse EXCEPT !.out = Append(@,
                            IF sse.dialect = "openai"
                            THEN create_openai_chunk(parsed_chunk.text, NoFinish)
                            ELSE create_anthropic_chunk(parsed_chunk.text, NoFinish))]
                  ELSE IF parsed_chunk.type = "error"
                  THEN [sse EXCEPT !.out = Append(@, app_literal("error")),
                                   !.pc = "done"]
                  ELSE sse
    /\ upstream' = [upstream EXCEPT !.next = @ + 1]
    /\ lastOp' = "generate"
    /\ UNCHANGED <<messages, kiro_request, completion>>
    /\ Unchanged_pool /\ Unchanged_gateway /\ Unchanged_refresh
    /\ Unchanged_sched /\ Unchanged_decode /\ Unchanged_requests

\* generate() after its for loop
generate_close ==
    /\ sse.pc = "loop"
    /\ upstream.next > Len(upstream.events)
    /\ sse' = [sse EXCEPT
                 !.pc = "done",
                 !.out = @ \o (IF sse.dialect = "openai"
                               THEN <<create_openai_chunk("", "stop"),
                                      app_literal("[DONE]")>>
                               ELSE <<app_literal("content_block_stop"),
                                      create_anthropic_chunk("", "end_turn"),
                                      app_literal("message_stop")>>)]
    /\ lastOp' = "generate"
    /\ UNCHANGED <<messages, kiro_request, upstream, completion>>
    /\ Unchanged_pool /\ Unchanged_gateway /\ Unchanged_refresh
    /\ Unchanged_sched /\ Unchanged_decode /\ Unchanged_requests

\* What a reader of the text/event-stream is handed: an event is dispatched
\* at a blank line; a string that does not end its line runs into the next
\* one (whose event name, if it has one, is then lost, and whose data line,
\* if it has no event name, is not a data line any more); what follows the
\* last blank line is never dispatched.
RECURSIVE Dispatched(_, _)
Dispatched(out, pending) ==
    IF out = <<>> THEN <<>>
    ELSE IF ~Head(out).eol THEN Dispatched(Tail(out), TRUE)
    ELSE (IF ~pending THEN <<Head(out)>>
          ELSE IF Head(out).event = "chunk" THEN <<>>
          ELSE <<[Head(out) EXCEPT !.event = "unnamed"]>>)
         \o Dispatched(Tail(out), FALSE)

-----------------------------------------------------------------------------
(* Specification of streaming: every sequence of up to MaxEvents upstream    *)
(* events, encoded in either dialect.                                        *)

InitStream ==
    /\ upstream \in {[events |-> e, next |-> 1] :
                        e \in UNION {[1..n -> UpstreamEvents] : n \in 0..MaxEvents}}
    /\ sse = NoStream
    /\ completion = NoCompletion
    /\ messages = <<>>
    /\ kiro_request = <<>>
    /\ lastOp = "init"
    /\ Idle_pool
    /\ Idle_refresh /\ Idle_sched /\ Idle_decode /\ Idle_requests

NextStream ==
    \/ \E dialect \in Dialects : generate_open(dialect)
    \/ generate_chunk
    \/ generate_close

SpecStream == InitStream /\ [][NextStream]_vars

\* The event, text and finish reason of each string of out
Frames(out) == [k \in 1..Len(out) |-> <<out[k].event, out[k].text, out[k].finish>>]

\* The non-empty texts of the content events, in arrival order
RECURSIVE DeltasOf(_)
DeltasOf(evs) ==
    IF evs = <<>> THEN <<>>
    ELSE (IF Head(evs).type = "content" /\ Head(evs).text # ""
          THEN <<Head(evs).text>> ELSE <<>>) \o DeltasOf(Tail(evs))

HasError(evs) == \E k \in 1..Len(evs) : evs[k].type = "error"

FirstError(evs) ==
    CHOOSE k \in 1..Len(evs) :
        evs[k].type = "error" /\ \A j \in 1..(k - 1) : evs[j].type # "error"

StreamDone(dialect) == sse.pc = "done" /\ sse.dialect = dialect

OpenAIOrder(deltas) ==
    <<(<<"chunk", "", NoFinish>>)>>
    \o [k \in 1..Len(deltas) |-> <<"chunk", deltas[k], NoFinish>>]
    \o <<(<<"chunk", "", "stop">>), (<<"[DONE]", "", NoFinish>>)>>

AnthropicOrder(deltas) ==
    <<(<<"message_start", "", NoFinish>>),
      (<<"content_block_start", "", NoFinish>>)>>
    \o [k \in 1..Len(deltas) |-> <<"content_block_delta", deltas[k], NoFinish>>]
    \o <<(<<"content_block_stop", "", NoFinish>>),
         (<<"message_delta", "", "end_turn">>),
         (<<"message_stop", "", NoFinish>>)>>

\* C22: an OpenAI-dialect stream without error hands its reader the opening
\* chunk, one chunk per non-empty delta in order, the chunk with finish
\* reason 'stop' and then the [DONE] terminator.  Violated: the terminator is
\* written with escaped line ends and is never a line of the stream.
C22_OpenAIStreamOrder ==
    (StreamDone("openai") /\ ~HasError(upstream.events))
        => Frames(Dispatched(sse.out, FALSE))
               = OpenAIOrder(DeltasOf(upstream.events))

\* The strings the OpenAI generator yields, line ends apart, are in the
\* order C22 states.
C22_YieldOrder ==
    (StreamDone("openai") /\ ~HasError(upstream.events))
        => Frames(sse.out) = OpenAIOrder(DeltasOf(upstream.events))

\* C23: an Anthropic-dialect stream without error hands its reader
\* message_start, content_block_start, one content_block_delta per delta,
\* content_block_stop, message_delta with the stop reason and message_stop,
\* in this order.  Violated: the four events built in app.py do not end
\* their lines.
C23_AnthropicStreamOrder ==
    (StreamDone("anthropic") /\ ~HasError(upstream.events))
        => Frames(Dispatched(sse.out, FALSE))
               = AnthropicOrder(DeltasOf(upstream.events))

\* The strings the Anthropic generator yields, line ends apart, are in the
\* order C23 states.
C23_YieldOrder ==
    (StreamDone("anthropic") /\ ~HasError(upstream.events))
        => Frames(sse.out) = AnthropicOrder(DeltasOf(upstream.events))

\* C24: once an error event has arrived, the reader of either stream has
\* been handed exactly one error frame, it is the last frame, and no later
\* upstream event was consumed.  Violated: the error frame does not end its
\* line and is never dispatched.
C24_ErrorFrameIsLast ==
    (sse.pc = "done" /\ HasError(upstream.events))
        => LET got == Frames(Dispatched(sse.out, FALSE))
           IN  /\ got # <<>>
               /\ got[Len(got)][1] = "error"
               /\ \A k \in 1..(Len(got) - 1) : got[k][1] # "error"
               /\ upstream.next = FirstError(upstream.events) + 1

\* The strings either generator yields, line ends apart, end with the one
\* error string, and the generator stops reading the upstream there.
C24_YieldedErrorIsLast ==
    (sse.pc = "done" /\ HasError(upstream.events))
        => LET got == Frames(sse.out)
           IN  /\ got[Len(got)][1] = "error"
               /\ \A k \in 1..(Len(got) - 1) :
                      got[k][1] \notin {"error", "[DONE]", "message_stop",
                                        "content_block_stop", "message_delta"}
                      /\ got[k][3] = NoFinish
               /\ upstream.next = FirstError(upstream.events) + 1

-----------------------------------------------------------------------------
(* Settings store under loads and updates (src/app.py: load_settings,        *)
(* get_settings, update_settings, update_auto_switch).  load_settings        *)
(* copies DEFAULT_SETTINGS one level deep only: the nested dicts of what it  *)
(* returns are the nested dicts of DEFAULT_SETTINGS, and whatever a handler  *)
(* writes into them stays in DEFAULT_SETTINGS.                               *)

JsonNumber(n) == <<[kind |-> "number", n |-> n, s |-> ""]>>

JsonString(str) == <<[kind |-> "string", n |-> 0, s |-> str]>>

Absent == <<>>

\* int(v) raises for a string that spells no number
int_raises(v) == v[1].kind = "string"

int_of(v) == v[1].n

\* Bodies of PUT /api/settings/auto-switch: 'enabled' and 'checkInterval',
\* each present or absent
AutoSwitchBodies ==
    {[enabled |-> e, checkInterval |-> c] :
        e \in {Absent, <<TRUE>>},
        c \in {Absent, JsonNumber(60), JsonString("abc")}}

\* Bodies of PUT /api/settings, one of them with a key the defaults lack
SettingsBodies ==
    {[autoRefresh |-> [interval |-> 60]],
     [statusCheck |-> [enabled |-> FALSE]],
     [legacy |-> [enabled |-> TRUE], autoSwitch |-> [switchThreshold |-> 50]]}

\* GET /api/settings
get_settings ==
    /\ DEFAULT_SETTINGS' = load_settings
    /\ response' = [code |-> 200, type |-> "ok"]
    /\ lastOp' = "get_settings"
    /\ UNCHANGED <<accounts, settingsDoc, now, account, changed, runs, switches,
                   settingsWrites, authenticated, selected, upstreamOpened>>
    /\ Unchanged_refresh /\ Unchanged_rest

\* PUT /api/settings/auto-switch up to the save: the assignments of lines
\* 902-909 write into the nested dict one after the other, and int() of line
\* 905 may raise between them
update_auto_switch(t, body) ==
    /\ threads[t].pc = "idle"
    /\ runs < MaxUpdates
    /\ LET settings == load_settings
           enabled_set ==
               IF body.enabled # Absent
               THEN [settings EXCEPT !.autoSwitch.enabled = body.enabled[1]]
               ELSE settings
       IN  IF body.checkInterval # Absent /\ int_raises(body.checkInterval)
           THEN /\ DEFAULT_SETTINGS' = enabled_set
                /\ response' = [code |-> 400, type |-> "error"]
                /\ UNCHANGED <<settingsDoc, threads>>
           ELSE LET interval_set ==
                        IF body.checkInterval # Absent
                        THEN [enabled_set EXCEPT !.autoSwitch.checkInterval =
                                                    int_of(body.checkInterval)]
                        ELSE enabled_set
                IN  /\ DEFAULT_SETTINGS' = interval_set
                    /\ settingsDoc' = <<interval_set>>
                    /\ response' = [code |-> 200, type |-> "ok"]
                    /\ threads' = [threads EXCEPT ![t].pc = "setup"]
    /\ runs' = runs + 1
    /\ lastOp' = "update_auto_switch"
    /\ UNCHANGED <<accounts, now, account, changed, switches, settingsWrites,
                   jobs, scheduler_jobs, authenticated, selected, upstreamOpened>>
    /\ Unchanged_refresh /\ Unchanged_decode
    /\ Unchanged_chat /\ Unchanged_requests

-----------------------------------------------------------------------------
(* Specification of the settings store: no document, or a document that      *)
(* holds some of the keys and a key the defaults lack; up to MaxUpdates      *)
(* updates by one request thread, and loads between them.                    *)

StoredDocuments ==
    {<<>>,
     <<[statusCheck |-> [interval |-> 60], legacy |-> [enabled |-> TRUE]]>>}

\* doc laid over the settings d, one level deep
Overlaid(d, doc) ==
    IF doc = <<>> THEN d
    ELSE [key \in DOMAIN d |->
            IF key \in DOMAIN doc[1]
            THEN [k \in DOMAIN d[key] \cup DOMAIN doc[1][key] |->
                    IF k \in DOMAIN doc[1][key] THEN doc[1][key][k] ELSE d[key][k]]
            ELSE d[key]]

InitSettings ==
    /\ settingsDoc \in StoredDocuments
    /\ DEFAULT_SETTINGS = Overlaid(FullDefaultSettings, settingsDoc)
    /\ jobs = InstalledFor(DEFAULT_SETTINGS)
    /\ scheduler_jobs = {id \in DOMAIN jobs : jobs[id] # <<>>}
    /\ threads = [t \in ThreadIds |-> NoThread]
    /\ lastOp = "init"
    /\ accounts = <<>>
    /\ now = 0
    /\ authenticated = FALSE
    /\ selected = <<>>
    /\ response = NoResponse
    /\ upstreamOpened = FALSE
    /\ account = <<>>
    /\ changed = FALSE
    /\ runs = 0
    /\ switches = 0
    /\ settingsWrites = 0
    /\ Idle_refresh /\ Idle_decode /\ Idle_chat /\ Idle_requests

NextSettings ==
    \/ get_settings
    \/ \E new_settings \in SettingsBodies : update_settings(1, new_settings)
    \/ \E body \in AutoSwitchBodies : update_auto_switch(1, body)
    \/ setup_scheduler_remove(1)
    \/ setup_scheduler_read(1)
    \/ setup_scheduler_add(1)

SpecSettings == InitSettings /\ [][NextSettings]_vars

\* C25: whatever loads and updates came before, load_settings returns the
\* original defaults overlaid one level deep with the stored document.
\* Violated: an update that raises after it has written into the loaded
\* settings leaves its value in DEFAULT_SETTINGS, and every later load
\* returns it for a key the store does not hold.
C25_LoadIsDefaultsOverlaid ==
    load_settings = Overlaid(FullDefaultSettings, settingsDoc)

\* A step that is not an update answered 400 keeps what a load returns equal
\* to the original defaults overlaid with the stored document.
C25_HoldsUnlessUpdateRaises ==
    [][(C25_LoadIsDefaultsOverlaid
        /\ ~(lastOp' = "update_auto_switch" /\ response'.code = 400))
           => C25_LoadIsDefaultsOverlaid']_vars

-----------------------------------------------------------------------------
(* Import of accounts (src/app.py: import_accounts).  An account is a dict:  *)
(* a function from the keys it has to their values.                          *)

MaxImport == 2

\* a.update(b)
dict_update(a, b) ==
    [k \in DOMAIN a \cup DOMAIN b |-> IF k \in DOMAIN b THEN b[k] ELSE a[k]]

SameKey_emailOnly(a, b) == a.email = b.email

\* a.get('email') == account.get('email') and a.get('idp') == account.get('idp')
SameKey(a, b) == a.email = b.email /\ a.idp = b.idp

\* if 'machineId' not in account: account['machineId'] = generate_machine_id()
with_machine_id(acct) ==
    IF "machineId" \in DOMAIN acct THEN acct
    ELSE dict_update(acct, [machineId |-> "generated"])

\* The for loop of import_accounts over the accounts of the request body
RECURSIVE import_loop(_, _)
import_loop(pool, imported) ==
    IF imported = <<>> THEN pool
    ELSE LET acct == with_machine_id(Head(imported))
             found == {i \in 1..Len(pool) : SameKey(pool[i], acct)}
         IN  IF found # {}
             THEN LET i == CHOOSE i \in found : \A j \in found : i <= j
                  IN  import_loop([pool EXCEPT ![i] = dict_update(@, acct)],
                                  Tail(imported))
             ELSE import_loop(Append(pool, acct), Tail(imported))

\* POST /api/accounts/import
import_accounts(imported) ==
    /\ accounts' = import_loop(accounts, imported)
    /\ response' = [code |-> 200, type |-> "ok"]
    /\ lastOp' = "import_accounts"
    /\ UNCHANGED <<settingsDoc, DEFAULT_SETTINGS, now, account, changed, runs,
                   switches, settingsWrites, authenticated, selected,
                   upstreamOpened>>
    /\ Unchanged_refresh /\ Unchanged_rest

-----------------------------------------------------------------------------
(* Specification of import: a stored pool of up to three accounts with       *)
(* different keys, and any number of imports of up to MaxImport accounts     *)
(* each.                                                                     *)

Imported(email, idp, accessToken) ==
    [email |-> email, idp |-> idp, accessToken |-> accessToken]

ImportedAccounts ==
    {Imported("e1", "Github", "t1"), Imported("e1", "Github", "t2"),
     Imported("e1", "BuilderId", "t1"), Imported("e2", "Github", "t1")}

ImportBodies == UNION {[1..n -> ImportedAccounts] : n \in 0..MaxImport}

Stored(id, email, idp) ==
    [email |-> email, idp |-> idp, accessToken |-> "t0", machineId |-> "m0",
     id |-> id]

StoredPools ==
    {<<>>,
     <<Stored(1, "e1", "Github")>>,
     <<Stored(1, "e2", "Github")>>,
     <<Stored(1, "e1", "BuilderId")>>,
     <<Stored(1, "e1", "BuilderId"), Stored(2, "e1", "Github")>>,
     <<Stored(1, "e2", "Github"), Stored(2, "e1", "Github")>>,
     <<Stored(1, "e2", "Github"), Stored(2, "e1", "BuilderId"),
       Stored(3, "e1", "Github")>>}

InitImport ==
    /\ accounts \in StoredPools
    /\ settingsDoc = <<>>
    /\ DEFAULT_SETTINGS = DefaultSettings
    /\ now = 0
    /\ lastOp = "init"
    /\ authenticated = FALSE
    /\ selected = <<>>
    /\ response = NoResponse
    /\ upstreamOpened = FALSE
    /\ account = <<>>
    /\ changed = FALSE
    /\ runs = 0
    /\ switches = 0
    /\ settingsWrites = 0
    /\ Idle_refresh /\ Idle_rest

NextImport == \E imported \in ImportBodies : import_accounts(imported)

SpecImport == InitImport /\ [][NextImport]_vars

KeyOf(a) == <<a.email, a.idp>>

UniqueKeys(pool) ==
    \A i, j \in 1..Len(pool) : KeyOf(pool[i]) = KeyOf(pool[j]) => i = j

\* The keys of the accounts of imported that are not in pool, each once, in
\* the order of their first occurrence
RECURSIVE NewKeys(_, _)
NewKeys(imported, seen) ==
    IF imported = <<>> THEN <<>>
    ELSE IF KeyOf(Head(imported)) \in seen THEN NewKeys(Tail(imported), seen)
    ELSE <<KeyOf(Head(imported))>>
         \o NewKeys(Tail(imported), seen \cup {KeyOf(Head(imported))})

\* The last account of imported with the key key
LastWithKey(imported, key) ==
    imported[CHOOSE k \in 1..Len(imported) :
                /\ KeyOf(imported[k]) = key
                /\ \A j \in (k + 1)..Len(imported) : KeyOf(imported[j]) # key]

\* C26: no two accounts of the pool share (email, idp), and an import leaves
\* every account it found at its position, with the imported fields laid over
\* it when its key was imported and untouched otherwise, and appends the
\* accounts with new keys at the end in input order.
C26_ImportKeepsKeysUnique ==
    /\ [](UniqueKeys(accounts))
    /\ [][\A imported \in ImportBodies :
            import_accounts(imported) =>
                LET keys == {KeyOf(imported[k]) : k \in 1..Len(imported)}
                    old == {KeyOf(accounts[i]) : i \in 1..Len(accounts)}
                    new == NewKeys(imported, old)
                IN  /\ Len(accounts') = Len(accounts) + Len(new)
                    /\ \A i \in 1..Len(accounts) :
                          /\ KeyOf(accounts'[i]) = KeyOf(accounts[i])
                          /\ KeyOf(accounts[i]) \notin keys
                                => accounts'[i] = accounts[i]
                          /\ KeyOf(accounts[i]) \in keys
                                => accounts'[i].accessToken =
                                     LastWithKey(imported, KeyOf(accounts[i])).accessToken
                    /\ \A k \in 1..Len(new) :
                          KeyOf(accounts'[Len(accounts) + k]) = new[k]]_vars

\* C26 witness: an import has updated the first account of the pool in place
\* and appended two accounts behind it.
C26_Witness ==
    /\ lastOp = "import_accounts"
    /\ Len(accounts) = 3
    /\ accounts[2].accessToken = "t1"
    /\ KeyOf(accounts[1]) = <<"e1", "Github">>
    /\ accounts[1].accessToken = "t2"
    /\ accounts[1].machineId = "generated"
    /\ "id" \in DOMAIN accounts[1]
    /\ UniqueKeys(accounts)

-----------------------------------------------------------------------------
(* Writers of the accounts document: the refresh pass of the timer, which    *)
(* loads the pool, refreshes account by account and saves at the end, next   *)
(* to the management routes (import, delete, manual refresh), the status     *)
(* pass and the chat route, each of which may run between two steps of the   *)
(* pass.                                                                      *)

\* A management request reaches the server once the one before it is answered
request_arrives(req) ==
    /\ inflight = <<>> \/ response # NoResponse
    /\ inflight' = <<req>>
    /\ response' = NoResponse
    /\ lastOp' = "request_arrives"
    /\ Unchanged_sched /\ Unchanged_decode /\ Unchanged_chat
    /\ Unchanged_pool /\ Unchanged_refresh
    /\ UNCHANGED <<authenticated, selected, upstreamOpened>>

\* The request of kind op is received and not answered yet
Pending(op) ==
    inflight # <<>> /\ inflight[1].op = op /\ response = NoResponse

\* DELETE /api/accounts/<account_id>
delete_account(account_id) ==
    /\ accounts' = save_accounts(
                      SelectSeq(accounts,
                                LAMBDA a : "id" \notin DOMAIN a
                                           \/ a.id # account_id),
                      accounts)
    /\ response' = [code |-> 200, type |-> "ok"]
    /\ lastOp' = "delete_account"
    /\ UNCHANGED <<settingsDoc, DEFAULT_SETTINGS, now, account, changed, runs,
                   switches, settingsWrites, authenticated, selected,
                   upstreamOpened>>
    /\ Unchanged_refresh /\ Unchanged_rest

\* POST /api/accounts/<account_id>/refresh; reply: the answer of the token
\* endpoint.  The document is saved whether the refresh succeeded or not.
refresh_account_token(account_id, reply) ==
    LET settings == load_settings
        found == {i \in 1..Len(accounts) :
                     "id" \in DOMAIN accounts[i] /\ accounts[i].id = account_id}
    IN  /\ DEFAULT_SETTINGS' = settings
        /\ IF found = {}
           THEN /\ response' = [code |-> 404, type |-> "Account not found"]
                /\ UNCHANGED accounts
           ELSE LET i == CHOOSE i \in found : \A j \in found : i <= j
                    r == refresh_token(accounts[i], now, reply, <<>>)
                    answered ==
                        IF r.ok
                        THEN dict_update(r.account,
                                 [lastRefreshedAt |-> now,
                                  tokenRemainingSeconds |->
                                      get_token_remaining_time(r.account, now),
                                  needsRefresh |->
                                      should_refresh_account(r.account,
                                                             settings, now)])
                        ELSE r.account
                IN  /\ accounts' = save_accounts(
                                      [accounts EXCEPT ![i] = answered],
                                      accounts)
                    /\ response' = [code |-> 200,
                                    type |-> IF r.ok THEN "ok" ELSE "failed"]
        /\ lastOp' = "refresh_account_token"
        /\ UNCHANGED <<settingsDoc, now, account, changed, runs, switches,
                       settingsWrites, authenticated, selected,
                       upstreamOpened>>
        /\ Unchanged_refresh /\ Unchanged_rest

\* The scheduler fires the 'status_check' job
status_check_job ==
    /\ auto_status_check_task
    /\ lastOp' = "status_check_job"
    /\ UNCHANGED <<settingsDoc, DEFAULT_SETTINGS, now, account, changed, runs,
                   switches, settingsWrites, response>>
    /\ UNCHANGED <<authenticated, selected, upstreamOpened>>
    /\ Unchanged_refresh /\ Unchanged_rest

-----------------------------------------------------------------------------
(* Specification of the writers: a stored pool of one or two accounts whose  *)
(* stored status may be stale and whose tokens are past expiry or far from   *)
(* it, one pass of the timer per MaxPasses, and any number of management     *)
(* requests, status passes and chat requests in between.                     *)

RaceEmails == <<"e1", "e2", "e3">>

RaceAccount(id, status, exp) ==
    WithLogin(Account(id, status, NoReason, "r1", "tok", exp, 1, MaxUsage, 0, 0),
              "BuilderId", "IdC", "cid", "sec")
        @@ [email |-> RaceEmails[id]]

\* expiresAt of a token that expired before the clock of the specification,
\* and of one that is valid for seconds to come
RaceExpiries == {1, 5000}

RacePools ==
    {<<a>> : a \in {RaceAccount(1, st, exp) :
                        st \in {"active", "expired"},
                        exp \in RaceExpiries}}
    \cup {<<RaceAccount(1, "active", exp1), RaceAccount(2, "active", exp2)>> :
            exp1 \in RaceExpiries, exp2 \in RaceExpiries}

\* The management requests of the specification: the import of a third
\* account, the removal and the manual refresh of the first
RaceRequests ==
    {[op |-> "import", body |-> <<RaceAccount(3, "active", 5000)>>],
     [op |-> "delete", account_id |-> 1],
     [op |-> "refresh", account_id |-> 1]}

InitRace ==
    /\ accounts \in RacePools
    /\ settingsDoc = <<AutoRefresh(TRUE, 300, 1, 1)>>
    /\ DEFAULT_SETTINGS = FullDefaultSettings
    /\ now = MaxTime
    /\ lastOp = "init"
    /\ authenticated = FALSE
    /\ selected = <<>>
    /\ response = NoResponse
    /\ upstreamOpened = FALSE
    /\ account = <<>>
    /\ changed = FALSE
    /\ runs = 0
    /\ switches = 0
    /\ settingsWrites = 0
    /\ Idle_refresh
    /\ Idle_rest

NextRace ==
    \/ auto_refresh_job
    \/ \E reply \in PassReplies :
            auto_refresh_account("timer", FALSE, reply, <<>>)
    \/ \E req \in RaceRequests : request_arrives(req)
    \/ Pending("import") /\ import_accounts(inflight[1].body)
    \/ Pending("delete") /\ delete_account(inflight[1].account_id)
    \/ \E reply \in PassReplies :
            Pending("refresh")
            /\ refresh_account_token(inflight[1].account_id, reply)
    \/ status_check_job
    \/ ~Pending("import") /\ ~Pending("delete") /\ ~Pending("refresh")
       /\ chat_completions(TRUE, TRUE)

SpecRace == InitRace /\ [][NextRace]_vars

\* The step in which the pass of the timer saves the pool
PassSaves == pass.timer.pc = "loop" /\ pass'.timer.pc = "done"

\* The pass of the timer has just saved the pool
PassSaved == lastOp = "auto_refresh_account" /\ pass.timer.pc = "done"

\* The management request received last was answered
Answered(op) ==
    inflight # <<>> /\ inflight[1].op = op /\ response # NoResponse

IdsOf(pool) == {pool[k].id : k \in 1..Len(pool)}

\* C27: the save of a pass leaves the membership of the persisted pool as it
\* finds it: an account that was imported is not dropped by it and an account
\* that was deleted does not reappear through it.
C27_PassSaveKeepsMembership ==
    [][PassSaves => IdsOf(accounts') = IdsOf(accounts)]_vars

\* C28: in every pool state persisted by a refresh pass, a status pass or a
\* manual refresh, the stored status of each account is the status that
\* check_account_status derives from its credentials and usage at that time.
C28_PersistedStatusIsDerived ==
    (\/ PassSaved
     \/ lastOp = "status_check_job"
     \/ lastOp = "refresh_account_token" /\ response.code = 200)
    => \A k \in 1..Len(accounts) :
          accounts[k].status = derive_status(accounts[k], now).status

\* C29: no chat request opens the upstream call with an access token whose
\* expiresAt is in the past.
C29_UpstreamTokenNotExpired ==
    (lastOp = "chat_completions" /\ upstreamOpened)
    => ~TokenExpired(selected[1], now)

\* C30: the save of a pass stores the snapshot of the pass whole, whatever the
\* store holds by then: credentials that a manual refresh stored after the
\* pass loaded the pool are replaced by the older ones of the snapshot.
C30_PassSaveOverwritesStore ==
    PassSaved => accounts = pass.timer.data

\* C30 witness: a manual refresh of account 1 succeeded and stored a new
\* access token, and after the save of the pass, which had loaded the pool
\* before, the stored account holds the old access token again.
C30_Witness ==
    /\ PassSaved
    /\ Answered("refresh") /\ response.type = "ok"
    /\ \E k \in 1..Len(accounts) :
          /\ accounts[k].id = inflight[1].account_id
          /\ accounts[k].accessToken = "tok"
          /\ "lastRefreshedAt" \notin DOMAIN accounts[k]

-----------------------------------------------------------------------------
(* History turns *)

\* C31: the history of every built request alternates user turn, assistant
\* turn, starting with a user turn.
C31_HistoryAlternates ==
    (Built /\ kiro_request # <<>>)
        => \A k \in 1..Len(kiro_request[1].history) :
              kiro_request[1].history[k].turn =
                  (IF k % 2 = 1 THEN "user" ELSE "assistant")

\* The user messages that stand before the first assistant message are one
\* user turn of the history, their texts joined by newline
C31_UserRunIsMerged ==
    (Built /\ kiro_request # <<>>)
        => LET others == NonSystem(messages)
               firstAssistant ==
                   {k \in 1..(Len(others) - 1) :
                       /\ others[k].role = "assistant"
                       /\ \A j \in 1..(k - 1) : others[j].role = "user"}
               h0 == IF SystemTexts(messages) # <<>> THEN 2 ELSE 0
           IN  \A k \in firstAssistant :
                  k > 1 =>
                     /\ Len(kiro_request[1].history) >= h0 + 2
                     /\ kiro_request[1].history[h0 + 1] =
                           userInputMessage(
                               Join([j \in 1..(k - 1) |-> MessageText(others[j])],
                                    <<Newline>>))
                     /\ kiro_request[1].history[h0 + 2] =
                           assistantResponseMessage(MessageText(others[k]))

-----------------------------------------------------------------------------
(* Specification of text extraction: one user message whose content is a     *)
(* string, a list of up to MaxBlocks blocks of type text or image, or        *)
(* neither, built into a request whose live turn is the extracted text.      *)

MaxBlocks == 3

Block(type, text) == [type |-> type, text |-> text]

Blocks == {Block(t, x) : t \in {"text", "image"}, x \in Texts}

Contents ==
    {StrContent(t) : t \in Texts \cup {<<>>}}
    \cup {ListContent(b) : b \in UNION {[1..n -> Blocks] : n \in 0..MaxBlocks}}
    \cup {NoContent}

InitExtract ==
    /\ messages \in {<<[role |-> "user", content |-> c]>> : c \in Contents}
    /\ kiro_request = <<>>
    /\ upstream = NoUpstream
    /\ sse = NoStream
    /\ completion = NoCompletion
    /\ lastOp = "init"
    /\ Idle_pool
    /\ Idle_refresh /\ Idle_sched /\ Idle_decode /\ Idle_requests

SpecExtract == InitExtract /\ [][NextBuild]_vars

\* The texts of the blocks of type text, in order
TextBlocks(blocks) ==
    TextsOf(SelectSeq(blocks, LAMBDA b : b.type = "text"), LAMBDA b : b.text)

\* C32: the text extracted from a string is the string, and the text
\* extracted from a list of blocks is the texts of its blocks of type text,
\* in order, joined by a newline.
C32_BlocksJoinedByNewline ==
    Built
        => LET content == messages[1].content
           IN  /\ content.kind = "str"
                    => kiro_request[1].content = content.text
               /\ content.kind = "list"
                    => kiro_request[1].content =
                          Join(TextBlocks(content.blocks), <<Newline>>)

\* What the code does: the texts of the blocks of type text are
\* concatenated with nothing between them
C32_BlocksConcatenated ==
    Built
        => LET content == messages[1].content
           IN  /\ content.kind = "str"
                    => kiro_request[1].content = content.text
               /\ content.kind = "list"
                    => kiro_request[1].content =
                          Join(TextBlocks(content.blocks), <<>>)

-----------------------------------------------------------------------------
(* The non-streaming answer of /v1/chat/completions: the for loop over the   *)
(* upstream events that accumulates full_content and output_tokens, and the  *)
(* response built from them.                                                 *)

\* The characters str.split() splits at
Whitespace == {9, 10, 32}

\* len(text.split()): the number of maximal runs of characters that are not
\* whitespace
len_split(text) ==
    Cardinality({k \in 1..Len(text) :
                    /\ text[k] \notin Whitespace
                    /\ k = 1 \/ text[k - 1] \in Whitespace})

\* full_content = '', input_tokens = 0, output_tokens = 0
completion_open ==
    /\ completion.pc = "idle"
    /\ completion' = [pc |-> "loop", full_content |-> <<>>, output_tokens |-> 0]
    /\ lastOp' = "chat_completions"
    /\ UNCHANGED <<messages, kiro_request, upstream, sse>>
    /\ Unchanged_pool /\ Unchanged_gateway /\ Unchanged_refresh
    /\ Unchanged_sched /\ Unchanged_decode /\ Unchanged_requests

\* One iteration of the for loop; an error event raises and the request is
\* answered 500
completion_chunk ==
    /\ completion.pc = "loop"
    /\ upstream.next <= Len(upstream.events)
    /\ LET parsed_chunk == upstream.events[upstream.next]
       IN  completion' =
              IF parsed_chunk.type = "content" /\ parsed_chunk.text # <<>>
              THEN [completion EXCEPT
                      !.full_content = @ \o parsed_chunk.text,
                      !.output_tokens = @ + len_split(parsed_chunk.text)]
              ELSE IF parsed_chunk.type = "error"
              THEN [completion EXCEPT !.pc = "failed"]
              ELSE completion
    /\ upstream' = [upstream EXCEPT !.next = @ + 1]
    /\ lastOp' = "chat_completions"
    /\ UNCHANGED <<messages, kiro_request, sse>>
    /\ Unchanged_pool /\ Unchanged_gateway /\ Unchanged_refresh
    /\ Unchanged_sched /\ Unchanged_decode /\ Unchanged_requests

\* After the loop: create_openai_response(full_content, model, input_tokens,
\* output_tokens)
completion_respond ==
    /\ completion.pc = "loop"
    /\ upstream.next > Len(upstream.events)
    /\ completion' = [completion EXCEPT !.pc = "done"]
    /\ lastOp' = "chat_completions"
    /\ UNCHANGED <<messages, kiro_request, upstream, sse>>
    /\ Unchanged_pool /\ Unchanged_gateway /\ Unchanged_refresh
    /\ Unchanged_sched /\ Unchanged_decode /\ Unchanged_requests

-----------------------------------------------------------------------------
(* Specification of token counting: every sequence of up to MaxEvents        *)
(* upstream events whose texts are made of a letter and a space.             *)

DeltaTexts == {<<97>>, <<32>>, <<97, 32>>, <<32, 97>>}

DeltaEvents ==
    {[type |-> "content", text |-> t] : t \in DeltaTexts \cup {<<>>}}
    \cup {[type |-> "error", text |-> <<>>]}

InitCount ==
    /\ upstream \in {[events |-> e, next |-> 1] :
                        e \in UNION {[1..n -> DeltaEvents] : n \in 0..MaxEvents}}
    /\ sse = NoStream
    /\ completion = NoCompletion
    /\ messages = <<>>
    /\ kiro_request = <<>>
    /\ lastOp = "init"
    /\ Idle_pool
    /\ Idle_refresh /\ Idle_sched /\ Idle_decode /\ Idle_requests

NextCount ==
    \/ completion_open
    \/ completion_chunk
    \/ completion_respond

SpecCount == InitCount /\ [][NextCount]_vars

\* Sum of len(text.split()) over the content events
RECURSIVE SumOfCounts(_)
SumOfCounts(evs) ==
    IF evs = <<>> THEN 0
    ELSE (IF Head(evs).type = "content" THEN len_split(Head(evs).text) ELSE 0)
         + SumOfCounts(Tail(evs))

\* C33: the output token count of an answered request is the number of
\* whitespace-separated words of the accumulated response text.
C33_CountOfAccumulatedText ==
    completion.pc = "done"
        => completion.output_tokens = len_split(completion.full_content)

\* What the code reports: the sum of the word counts of the deltas
C33_SumOfDeltaCounts ==
    completion.pc = "done"
        => completion.output_tokens = SumOfCounts(upstream.events)

-----------------------------------------------------------------------------
(* Specification of error frames: a stream of up to MaxFrames frames, each   *)
(* a well-formed frame with a content payload or with an error payload,      *)
(* delivered in chunks of every size.                                        *)

ErrorFrames == {Frame(12, <<>>, json_dumps([content |-> <<>>, error |-> <<97>>]))}

ContentFrames == {Frame(12, <<>>, json_dumps([content |-> <<98>>]))}

InitErrorFrame ==
    /\ frames \in UNION {[1..n -> ErrorFrames \cup ContentFrames] :
                            n \in 0..MaxFrames}
    /\ wire = encode_stream(frames)
    /\ buffer = <<>>
    /\ parsed = <<>>
    /\ emitted = <<>>
    /\ lastOp = "init"
    /\ Idle_pool
    /\ Idle_refresh /\ Idle_sched /\ Idle_chat /\ Idle_requests

SpecErrorFrame == InitErrorFrame /\ [][NextDecode]_vars

\* The frames whose payload is an object with an error field
ErrorFramesSent ==
    {k \in 1..Len(frames) :
        /\ json_loads(frames[k].payload) # <<>>
        /\ "error" \in DOMAIN json_loads(frames[k].payload)[1]}

\* The error events stream_response yielded
ErrorEventsEmitted ==
    {k \in 1..Len(emitted) : "error" \in DOMAIN emitted[k]}

\* C34: every decoded frame whose payload carries an error field is passed
\* on as an error event: at the end of the stream stream_response has yielded
\* one error event for each of them.
C34_ErrorFramePassedOn ==
    StreamEnded
        => Cardinality(ErrorEventsEmitted) = Cardinality(ErrorFramesSent)

\* What the code does: every frame is decoded, and only the content of the
\* frames with content is yielded
C34_OnlyContentIsYielded ==
    StreamEnded
        => /\ parsed = PayloadsOf(frames)
           /\ emitted = ContentEvents(parsed)
           /\ ErrorEventsEmitted = {}

-----------------------------------------------------------------------------
(* Specification of frames with a total length out of range: a stream of up  *)
(* to MaxFrames frames, each a valid frame or four bytes that declare a      *)
(* total length of 0, of 5 (with a fifth byte) or of more than 16 MiB,       *)
(* delivered in chunks of every size.                                        *)

ZeroFrame == [prelude |-> 4, header |-> <<>>, payload |-> <<>>, total |-> 0]

HugeFrame ==
    [prelude |-> 4, header |-> <<>>, payload |-> <<>>,
     total |-> 16 * 1024 * 1024 + 1]

BadLengthFrames == {ShortFrame, ZeroFrame, HugeFrame}

InitBadLength ==
    /\ frames \in UNION {[1..n -> BadLengthFrames \cup ContentFrames] :
                            n \in 0..MaxFrames}
    /\ wire = encode_stream(frames)
    /\ buffer = <<>>
    /\ parsed = <<>>
    /\ emitted = <<>>
    /\ lastOp = "init"
    /\ Idle_pool
    /\ Idle_refresh /\ Idle_sched /\ Idle_chat /\ Idle_requests

SpecBadLength == InitBadLength /\ [][NextDecode]_vars

\* The buffer holds 16 bytes or more and the four at its head declare a
\* total length below 16 or above 16 MiB
BadLengthAtHead(buf) ==
    /\ Len(buf) >= 16
    /\ LET total_length == unpack_uint32(SubSeq(buf, 1, 4))
       IN  total_length < 16 \/ total_length > 16 * 1024 * 1024

\* The buffer the while loop of a step starts with: what was buffered and
\* the chunk that arrived
Extended == buffer \o SubSeq(wire, 1, Len(wire) - Len(wire'))

-----------------------------------------------------------------------------
(* Specification of decoder progress: a stream of up to MaxFrames frames     *)
(* whose total lengths are all in range, each a valid frame, a frame with a  *)
(* payload that is not JSON, or a frame of 16 bytes that declares a header   *)
(* section of one byte (so that payload_start is 13 and payload_end is 12).  *)
(* iter_content goes on delivering chunks while the stream has bytes.        *)

LongHeaderFrame ==
    [prelude |-> 12, header |-> <<>>, payload |-> <<>>, total |-> 16,
     header_length |-> 1]

ProgressFrames ==
    ContentFrames \cup {LongHeaderFrame, Frame(12, <<>>, <<LBrace, 97>>)}

InitProgress ==
    /\ frames \in UNION {[1..n -> ProgressFrames] : n \in 0..MaxFrames}
    /\ wire = encode_stream(frames)
    /\ buffer = <<>>
    /\ parsed = <<>>
    /\ emitted = <<>>
    /\ lastOp = "init"
    /\ Idle_pool
    /\ Idle_refresh /\ Idle_sched /\ Idle_chat /\ Idle_requests

SpecProgress == InitProgress /\ [][NextDecode]_vars /\ WF_vars(NextDecode)

\* C36: once all bytes of the stream have arrived, the content of every
\* well-formed frame is eventually emitted, whatever frames stand before it.
C36_FramesEventuallyEmitted ==
    (wire = <<>>) ~> (emitted = ContentEvents(PayloadsOf(frames)))

\* What the code keeps: the frames in front of the first frame whose header
\* length exceeds its total length are decoded; that frame and all bytes
\* behind it stay in the buffer for good
C36_BlockedAtLongHeader ==
    StreamEnded
        => LET long == {k \in 1..Len(frames) : frames[k] = LongHeaderFrame}
               first == IF long = {} THEN Len(frames) + 1
                        ELSE CHOOSE k \in long : \A j \in long : k <= j
           IN  /\ parsed = PayloadsOf(SubSeq(frames, 1, first - 1))
               /\ buffer = encode_stream(SubSeq(frames, first, Len(frames)))

-----------------------------------------------------------------------------
(* Gateway requests served by an account without access token *)

\* C37: on both gateway routes a request for which the selected account has
\* no access token is answered 503 and opens no upstream call.
C37_NoTokenGives503 ==
    (/\ lastOp \in {"chat_completions", "anthropic_messages"}
     /\ authenticated
     /\ selected # <<>> /\ selected[1].accessToken = "")
        => /\ response.code = 503
           /\ ~upstreamOpened

\* What holds of /v1/chat/completions alone
C37_ChatRouteGives503 ==
    (/\ lastOp = "chat_completions"
     /\ authenticated
     /\ selected # <<>> /\ selected[1].accessToken = "")
        => /\ response.code = 503
           /\ ~upstreamOpened

-----------------------------------------------------------------------------
(* The pointer after a run of the switch task, checked in SpecSwitch.        *)

\* Some active account of the pool has usage below the switch threshold
ActiveBelowThreshold ==
    \E i \in ActiveIndexes : UsageBelow(accounts[i], SwitchThreshold)

\* After the step the pointer names an account of the pool whose status is
\* 'active'
PointsAtActive ==
    \E i \in 1..Len(accounts') :
        /\ accounts'[i].id = CurrentAccountId'
        /\ accounts'[i].status = "active"

\* C39: after the switch task ran with auto-switch enabled and an active
\* account with usage below the threshold in the pool, the pointer names an
\* account whose status is 'active'
C39_PointerEndsOnActive ==
    [][(SwitchRan /\ AutoSwitchEnabled /\ ActiveBelowThreshold)
            => PointsAtActive]_vars

\* C39 as the code has it: the same, when the task does not return early,
\* that is when the pointer names no account of the pool or the usage of the
\* account it names is not below the threshold
C39_PointerEndsOnActiveWhenRotating ==
    [][(/\ SwitchRan
        /\ AutoSwitchEnabled
        /\ ActiveBelowThreshold
        /\ ~CurrentBelowThreshold(accounts, load_settings))
            => PointsAtActive]_vars

\* C39: the task ran and moved the pointer to an active account while an
\* account of the pool is not active
C39_Witness ==
    /\ lastOp \in {"auto_switch_job", "trigger_job"}
    /\ switches > 0
    /\ AutoSwitchEnabled
    /\ \E i \in ActiveIndexes : accounts[i].id = CurrentAccountId
    /\ \E i \in 1..Len(accounts) : accounts[i].status # "active"

-----------------------------------------------------------------------------
(* Specification of the pointer: a stored pool, stored auto-switch settings  *)
(* whose pointer is null or names an account of the pool, and the requests   *)
(* and the task that write the pool or the pointer, in any order.            *)

PointerPools ==
    {<<>>}
    \cup {<<RaceAccount(1, st, 5000)>> : st \in {"active", "expired"}}
    \cup {<<RaceAccount(1, st1, 5000), RaceAccount(2, st2, 5000)>> :
            st1 \in {"active", "expired"}, st2 \in {"active", "expired"}}

InitPointer ==
    /\ accounts \in PointerPools
    /\ settingsDoc \in {<<>>} \cup
            {<<AutoSwitch(e, t, c)>> :
                e \in BOOLEAN, t \in Thresholds, c \in 0..Len(accounts)}
    /\ DEFAULT_SETTINGS = DefaultSettings
    /\ now = 0
    /\ lastOp = "init"
    /\ authenticated = FALSE
    /\ selected = <<>>
    /\ response = NoResponse
    /\ upstreamOpened = FALSE
    /\ account = <<>>
    /\ changed = FALSE
    /\ runs = 0
    /\ switches = 0
    /\ settingsWrites = 0
    /\ Idle_refresh
    /\ Idle_rest

NextPointer ==
    \/ \E account_id \in 1..GhostId : set_current_account(account_id)
    \/ \E account_id \in 1..GhostId : delete_account(account_id)
    \/ import_accounts(<<RaceAccount(3, "active", 5000)>>)
    \/ auto_switch_job

SpecPointer == InitPointer /\ [][NextPointer]_vars

\* C38: after any sequence of set-current, delete, import and switch-task
\* operations the pointer is null or the id of an account of the pool
C38_PointerNeverDangles ==
    CurrentAccountId = NoId \/ CurrentAccountId \in IdsOf(accounts)

\* C38, the part on set-current: an unknown id is answered 404 and the stored
\* settings stay as they are, a known id becomes the pointer
C38_SetCurrentChecksThePool ==
    [][\A account_id \in 1..GhostId :
          (lastOp' = "set_current_account" /\ set_current_account(account_id))
              => IF account_id \in IdsOf(accounts)
                 THEN response'.code = 200 /\ CurrentAccountId' = account_id
                 ELSE response'.code = 404 /\ settingsDoc' = settingsDoc]_vars

\* C38, the writers of the pool: delete and import leave the stored settings
\* as they are
C38_PoolWritersLeaveSettings ==
    [][lastOp' \in {"delete_account", "import_accounts"}
          => settingsDoc' = settingsDoc]_vars

====
